---- MODULE Spec2Model ----
(***************************************************************************)
(* A model of the classification-and-extraction engine of omg-scotus.     *)
(*                                                                         *)
(* Text is modelled as a sequence of tokens (strings): a character for     *)
(* the page indexer, a word, a run element of whitespace or a punctuation  *)
(* group for the regular-expression driven extractors.  Each component of  *)
(* the engine is a small state machine with its own specification; the     *)
(* variables of the components that a specification does not exercise are  *)
(* parked at their idle value.                                             *)
(***************************************************************************)
EXTENDS Naturals, Sequences, FiniteSets, TLC

VARIABLES
    \* Parser.get_pdf_page_indices (parser.py) / get_page_indices (main.py)
    pdf_pages,      \* what p.extract_text() returns for each page, in page order
    pdf_text,       \* msg['pdf_text']: the flat buffer the ranges index into
    retv,           \* the list of (start, end) ranges built so far
    start,          \* the running offset
    idx_pc,         \* "idle" | "loop" | "done" | "assert_failed"
    \* Parser.set_document_type (parser.py)
    msg,            \* [title, stream, page_count, first_line]
    document_type,  \* the DocumentType returned, or "none"
    cls_pc,         \* "idle" | "start" | "done" | "NotImplementedError" | "IndexError"
    \* OrderList.set_sections (release.py, document_list.py) and the script's
    \* get_order_section_matches (main.py)
    orders_text,    \* the orders partition, as tokens
    sec_impl,       \* which of the two extractors runs on it
    sec_pos,        \* where re.finditer resumes (tokens consumed so far)
    sections,       \* self.sections: the OrderSection objects appended so far
    section_matches, \* main.py's retv: kind -> content, None for a placeholder
    sec_pc,         \* "idle" | "loop" | "done" | "NotImplementedError"
    \* Opinion and Syllabus (release.py): get_type and set_authorship
    op_kind,        \* "Opinion" | "Syllabus"
    attribution_sentence, \* self._attribution_sentence, as tokens
    type,           \* self.type, "unset" before get_type returns
    author,         \* self.author, "unset" before set_authorship sets it
    joiners,        \* self.joiners: a list of tags, or None
    op_pc,          \* "idle" | "new" | "typed" | "done" | the error raised
    \* Syllabus.alignment_summary and SlipOpinion.get_alignment_summary
    doc,            \* doc.sents, each sentence as the code reads it
    sent_i,         \* the sentence the loop is at
    majority_author, \* a tag, or "None"
    majority_joiners, \* a list of tags, or None
    opinions,       \* the list of (type, author, joiners) built so far
    alignment,      \* self.alignment: (majority, dissent, score), or None
    al_pc,          \* "idle" | "loop" | "returned" | "scored" | the error raised
    \* OrderListParserStrategy.parse, OpinionParserStrategy.parse (parser.py)
    \* and split_order_list_text (main.py)
    seg_impl,       \* which of the three runs
    release_title,  \* msg['title']
    page_texts,     \* pdf_text[start:end] for each page range, in page order
    page_i,         \* the page the loop is at
    order_text,     \* retv['orders_text'] (None: no such key) / order_text
    opinion_text,   \* opinion_text of the script, retv of OpinionParserStrategy
    full_text,      \* full_text of the script
    first_op_page,  \* first_op_page of the script
    placed,         \* for each page passed: "orders", "opinions" or "nowhere"
    seg_pc,         \* "idle" | "loop" | "done" | "IndexError" | "ValueError"
    \* SlipOpinion.set_documents, OpinionRelatingToOrder.set_documents
    \* (release.py) and OpinionList.get_sections (document_list.py)
    split_impl,     \* which of the three runs
    opinions_text,  \* self.text, as tokens
    no_syllabus,    \* self.is_per_curiam or self.is_decree
    documents,      \* the documents created, each with its kind and its text
    split_pc,       \* "idle" | "start" | "done" | "IndexError"
    \* get_disposition_type (helpers.py)
    disposition_text,  \* string, as tokens
    disp_matches,      \* the matches of re.finditer, each with what it appended
    disp_retv,         \* retv
    disp_pc,           \* "idle" | "start" | "done"
    \* Opinion.__init__ with set_recusals (release.py)
    rec_text,          \* self.text, as tokens
    rec_sentence,      \* self._attribution_sentence
    recusals,          \* self.recusals: None or a list of tags
    rec_pc,            \* "idle" | "new" | "typed" | "recused" | "done" | an error
    \* RuleOrder.get_rules and set_rule_content (release.py)
    bolded_text,       \* self.get_bolded_text(), as tokens
    rule_text,         \* self.text, as tokens
    rules,             \* self.rules, each with number, title and contents
    rule_i,            \* i of set_rule_content
    rule_from,         \* where re.finditer goes on in self.text
    rule_pc,           \* "idle" | "get_rules" | "set_rule_content" | "done" | "IndexError"
    \* OrderSectionType.from_string, Parser.set_document_type,
    \* JusticeTag.from_string and Opinion.get_type as single calls
    err_op,            \* the operation called
    err_label,         \* the label handed to OrderSectionType.from_string
    err_msg,           \* self.msg of the Parser
    err_name,          \* the string handed to JusticeTag.from_string
    err_sentence,      \* the sentence handed to Opinion.get_type
    err_outcome,       \* the value returned or the exception raised
    err_pc,            \* "idle" | "call" | "returned" | "raised"
    \* OrderSection.set_cases and get_cases_text (section.py)
    case_text,         \* self.text of the section, as tokens
    cases,             \* self.cases, each with number and name
    cases_report,      \* what get_cases_text returned
    case_pc,           \* "idle" | "new" | "kept" | "reported"
    \* SlipOpinion: the flags of the release and the opinions set_documents made
    is_per_curiam,     \* self.is_per_curiam
    is_decree,         \* self.is_decree
    slip_opinions,     \* self.opinions, each with its type and its author
    \* Release.compose_tweet (release.py) and TwitterPublisher.post_tweet (tweet.py)
    tw_type,           \* self.document_type of the release
    tw_title,          \* self.title
    tw_date,           \* self.date
    tw_url,            \* self.url
    tw_holding,        \* self.holding of a slip opinion
    tw_score,          \* self.score of a slip opinion
    tw_sections,       \* (label, number of cases) of each section of an order list
    tw_rules,          \* len(self.rules) of a rules order
    tw_documents,      \* (type name, author name) of each opinion relating to an order
    tweet,             \* what compose_tweet returned
    tw_pc,             \* "idle" | "release" | "composed" | "posted" | the error raised
    \* ChangeDetector (website_change_detector.py), one per stream (daemon.py)
    site,              \* the text of the watched element each stream's page serves
    site_changed,      \* whether that text changed since the detector was built
    watch_element,     \* self.watch_element.text of each detector
    hash,              \* hash of start_detection, "None" before it is taken
    new_hash,          \* new_hash of the last poll
    main_calls,        \* how many times each detector called main
    pipeline_runs,     \* how many of those calls ran the pipeline
    poll_context,      \* the exception that the ValueError replaced
    poll_pc,           \* "start" | "sleep" | "refreshed" | "done" | "ValueError"
    \* get_term_year (helpers.py)
    term_dt,           \* dt, as (year, month, day)
    term_year,         \* the string returned, as its digits
    term_pc            \* "idle" | "call" | "returned"

pageVars == <<pdf_pages, pdf_text, retv, start, idx_pc>>
classVars == <<msg, document_type, cls_pc>>
sectVars == <<orders_text, sec_impl, sec_pos, sections, section_matches, sec_pc>>
opinionVars == <<op_kind, attribution_sentence, type, author, joiners, op_pc>>
alignmentVars == <<doc, sent_i, majority_author, majority_joiners, opinions, alignment, al_pc>>
segmentVars == <<seg_impl, release_title, page_texts, page_i, order_text, opinion_text,
                 full_text, first_op_page, placed, seg_pc>>
splitVars == <<split_impl, opinions_text, no_syllabus, documents, split_pc>>
dispositionVars == <<disposition_text, disp_matches, disp_retv, disp_pc>>
recusalVars == <<rec_text, rec_sentence, recusals, rec_pc>>
rulesVars == <<bolded_text, rule_text, rules, rule_i, rule_from, rule_pc>>
lookupVars == <<err_op, err_label, err_msg, err_name, err_sentence, err_outcome, err_pc>>
casesVars == <<case_text, cases, cases_report, case_pc>>
flagVars == <<is_per_curiam, is_decree, slip_opinions>>
tweetVars == <<tw_type, tw_title, tw_date, tw_url, tw_holding, tw_score, tw_sections, tw_rules, tw_documents, tweet, tw_pc>>
pollerVars == <<site, site_changed, watch_element, hash, new_hash, main_calls, pipeline_runs, poll_context, poll_pc>>
termVars == <<term_dt, term_year, term_pc>>
vars == <<pageVars, classVars, sectVars, opinionVars, alignmentVars, segmentVars,
          splitVars,
          dispositionVars,
          recusalVars,
          rulesVars,
          lookupVars,
          casesVars,
          flagVars,
          tweetVars,
          pollerVars,
          termVars>>

\* What each component leaves alone.
notTermVars == <<pageVars, classVars, sectVars, opinionVars, alignmentVars, segmentVars, splitVars, dispositionVars, recusalVars, rulesVars, lookupVars, casesVars, flagVars, tweetVars, pollerVars>>
notPollerVars == <<pageVars, classVars, sectVars, opinionVars, alignmentVars, segmentVars, splitVars, dispositionVars, recusalVars, rulesVars, lookupVars, casesVars, flagVars, tweetVars, termVars>>
notTweetVars == <<pageVars, classVars, sectVars, opinionVars, alignmentVars, segmentVars, splitVars, dispositionVars, recusalVars, rulesVars, lookupVars, casesVars, flagVars, pollerVars, termVars>>
notCasesVars == <<pageVars, classVars, sectVars, opinionVars, alignmentVars, segmentVars, splitVars, dispositionVars, recusalVars, rulesVars, lookupVars, flagVars, tweetVars, pollerVars, termVars>>
notLookupVars == <<pageVars, classVars, sectVars, opinionVars, alignmentVars, segmentVars, splitVars, dispositionVars, recusalVars, rulesVars, casesVars, flagVars, tweetVars, pollerVars, termVars>>
notRulesVars == <<pageVars, classVars, sectVars, opinionVars, alignmentVars, segmentVars, splitVars, dispositionVars, recusalVars, lookupVars, casesVars, flagVars, tweetVars, pollerVars, termVars>>
notRecusalVars == <<pageVars, classVars, sectVars, opinionVars, alignmentVars, segmentVars, splitVars, dispositionVars, rulesVars, lookupVars, casesVars, flagVars, tweetVars, pollerVars, termVars>>
notDispositionVars == <<pageVars, classVars, sectVars, opinionVars, alignmentVars, segmentVars, splitVars, recusalVars, rulesVars, lookupVars, casesVars, flagVars, tweetVars, pollerVars, termVars>>
notPageVars == <<classVars, sectVars, opinionVars, alignmentVars, segmentVars, splitVars, dispositionVars, recusalVars, rulesVars, lookupVars, casesVars, flagVars, tweetVars, pollerVars, termVars>>
notClassVars == <<pageVars, sectVars, opinionVars, alignmentVars, segmentVars, splitVars, dispositionVars, recusalVars, rulesVars, lookupVars, casesVars, flagVars, tweetVars, pollerVars, termVars>>
notSectVars == <<pageVars, classVars, opinionVars, alignmentVars, segmentVars, splitVars, dispositionVars, recusalVars, rulesVars, lookupVars, casesVars, flagVars, tweetVars, pollerVars, termVars>>
notOpinionVars == <<pageVars, classVars, sectVars, alignmentVars, segmentVars, splitVars, dispositionVars, recusalVars, rulesVars, lookupVars, casesVars, flagVars, tweetVars, pollerVars, termVars>>
notSegmentVars == <<pageVars, classVars, sectVars, opinionVars, alignmentVars, splitVars, dispositionVars, recusalVars, rulesVars, lookupVars, casesVars, flagVars, tweetVars, pollerVars, termVars>>
notSplitVars == <<pageVars, classVars, sectVars, opinionVars, alignmentVars, segmentVars, dispositionVars, recusalVars, rulesVars, lookupVars, casesVars, flagVars, tweetVars, pollerVars, termVars>>
notAlignmentVars == <<pageVars, classVars, sectVars, opinionVars, segmentVars, splitVars, dispositionVars, recusalVars, rulesVars, lookupVars, casesVars, flagVars, tweetVars, pollerVars, termVars>>

(***************************************************************************)
(* Bounds of the model.                                                    *)
(***************************************************************************)
MaxPages == 2
MaxPageLen == 2
MaxPageCount == 2
MaxChunks == 3
MaxSentChunks == 3
MaxSents == 3
MaxSegPages == 3
MaxSplitPieces == 4
MaxDispositionPieces == 3
MaxOpinionPieces == 3
MaxRuleHeadings == 2
MaxRuleLines == 3
MaxLabelWords == 2
MaxSectionLines == 3
MaxSlipOpinions == 2
MaxHoldingSentences == 4
MaxTweetSections == 3
MaxTweetRules == 2
MaxTermYears == 5

(***************************************************************************)
(* Generic helpers.                                                        *)
(***************************************************************************)
Min(a, b) == IF a <= b THEN a ELSE b

\* All sequences over S of length 0..n.
SeqsUpTo(S, n) == UNION {[1..k -> S] : k \in 0..n}

RECURSIVE Flatten(_)
\* ''.join(list of texts)
Flatten(ss) == IF ss = <<>> THEN <<>> ELSE Head(ss) \o Flatten(Tail(ss))

\* Python's s[a:b] for 0 <= a <= b: both ends are clamped to len(s).
Slice(s, a, b) ==
    IF a >= Len(s) \/ b <= a THEN <<>> ELSE SubSeq(s, a + 1, Min(b, Len(s)))

(***************************************************************************)
(* PageIndexer: Parser.get_pdf_page_indices.                               *)
(***************************************************************************)
PageChars == {"a", "b"}
PageTexts == SeqsUpTo(PageChars, MaxPageLen)
PageLists == SeqsUpTo(PageTexts, MaxPages)

\* The text extraction runs twice on the same PDF: once for the flat buffer
\* (get_pdf_text, parser.py line 217) and once per page while indexing
\* (line 225).  The two agree unless the extraction drifted: the buffer is the
\* concatenation of the pages, or that text with one character dropped,
\* replaced or added.
DriftedTexts(t) ==
    {t}
    \cup {SubSeq(t, 1, k - 1) \o SubSeq(t, k + 1, Len(t)) : k \in 1..Len(t)}
    \cup {[t EXCEPT ![k] = c] : k \in 1..Len(t), c \in PageChars}
    \cup {t \o <<c>> : c \in PageChars}

get_pdf_text(pages) == Flatten(pages)

\* assert pdf_text[start:end] == p.extract_text()
PageMatchesAlways(text, s, e, page) == TRUE
PageMatches(text, s, e, page) == Slice(text, s, e) = page

\* start += pg_len
NextStartOffByOne(s, pg_len) == s + pg_len + 1
NextStart(s, pg_len) == s + pg_len

IdlePages ==
    /\ pdf_pages = <<>>
    /\ pdf_text = <<>>
    /\ retv = <<>>
    /\ start = 0
    /\ idx_pc = "idle"

InitPages ==
    /\ pdf_pages \in PageLists
    /\ pdf_text \in DriftedTexts(get_pdf_text(pdf_pages))
    /\ retv = <<>>
    /\ start = 0
    /\ idx_pc = "loop"

\* One iteration of `for p in self.msg['pdf'].pages` whose assertion holds.
IndexPage ==
    /\ idx_pc = "loop"
    /\ Len(retv) < Len(pdf_pages)
    /\ LET p == pdf_pages[Len(retv) + 1]
           pg_len == Len(p)
           end == start + pg_len
       IN /\ PageMatches(pdf_text, start, end, p)
          /\ retv' = Append(retv, <<start, end>>)
          /\ start' = NextStart(start, pg_len)
    /\ UNCHANGED <<pdf_pages, pdf_text, idx_pc, notPageVars>>

\* The iteration whose assertion fails: AssertionError leaves the method.
IndexAssertFails ==
    /\ idx_pc = "loop"
    /\ Len(retv) < Len(pdf_pages)
    /\ LET p == pdf_pages[Len(retv) + 1]
       IN ~PageMatches(pdf_text, start, start + Len(p), p)
    /\ idx_pc' = "assert_failed"
    /\ UNCHANGED <<pdf_pages, pdf_text, retv, start, notPageVars>>

\* return retv
IndexReturn ==
    /\ idx_pc = "loop"
    /\ Len(retv) = Len(pdf_pages)
    /\ idx_pc' = "done"
    /\ UNCHANGED <<pdf_pages, pdf_text, retv, start, notPageVars>>

NextPages == IndexPage \/ IndexAssertFails \/ IndexReturn

(***************************************************************************)
(* DocumentClassifier: Parser.set_document_type and is_stay_order.         *)
(***************************************************************************)
Streams == {"ORDERS", "SLIP_OPINIONS", "OPINIONS_RELATING_TO_ORDERS", "DEBUG"}

\* Titles as the fetcher hands them over; title.upper() and
\* title.startswith('Rules') are recorded with the title because a string is
\* opaque to the model.
Titles == {
    [text |-> "Order List", upper |-> "ORDER LIST", rules_prefix |-> FALSE],
    [text |-> "Miscellaneous Order", upper |-> "MISCELLANEOUS ORDER",
     rules_prefix |-> FALSE],
    [text |-> "Rules of Appellate Procedure",
     upper |-> "RULES OF APPELLATE PROCEDURE", rules_prefix |-> TRUE],
    [text |-> "Rules v. United States", upper |-> "RULES V. UNITED STATES",
     rules_prefix |-> TRUE],
    [text |-> "MISCELLANEOUS ORDER", upper |-> "MISCELLANEOUS ORDER",
     rules_prefix |-> FALSE],
    [text |-> "Love v. Texas", upper |-> "LOVE V. TEXAS", rules_prefix |-> FALSE] }

\* The first line of the extracted text, as words and blanks; NoLine when the
\* text is empty, so that splitlines() is the empty list.
NoLine == <<"<no line>">>
StayHeader == <<"Supreme", "Court", "of", "the", "United", "States">>
FirstLines == {
    <<"Supreme", " ", "Court", " ", "of", " ", "the", " ", "United", " ", "States">>,
    <<" ", " ", "Supreme", " ", " ", "Court", " ", "of", " ", "the", " ",
      "United", " ", "States", " ">>,
    <<"SUPREME", " ", "COURT", " ", "OF", " ", "THE", " ", "UNITED", " ", "STATES">>,
    <<"(ORDER", " ", "LIST:", " ", "594", " ", "U.S.)">>,
    <<"Supreme", " ", "Court", " ", "of", " ", "the", " ", "United">>,
    <<>> }

IsBlank(tok) == tok \in {" ", "\t", "\n"}
IsWordTok(tok) == ~IsBlank(tok)

\* s.split(): the words of s, blanks dropped (' '.join of it is determined by
\* the list of words).
SplitWords(s) == SelectSeq(s, IsWordTok)

\* is_stay_order's three conditions; cond3 is computed even when cond1 or
\* cond2 is false, so an empty text raises IndexError whatever they are.
StayCond1(title) == title.upper = "MISCELLANEOUS ORDER"
StayCond2(page_count) == page_count = 1
StayCond3(first_line) == SplitWords(first_line) = StayHeader

is_stay_order_any_pages(title, page_count, first_line) ==
    StayCond1(title) /\ StayCond3(first_line)
is_stay_order(title, page_count, first_line) ==
    StayCond1(title) /\ StayCond2(page_count) /\ StayCond3(first_line)

IdleClass ==
    /\ msg = [title |-> [text |-> "", upper |-> "", rules_prefix |-> FALSE],
              stream |-> "", page_count |-> 0, first_line |-> NoLine]
    /\ document_type = "none"
    /\ cls_pc = "idle"

InitClass ==
    /\ msg \in {m \in [title : Titles, stream : Streams,
                       page_count : 0..MaxPageCount,
                       first_line : FirstLines \cup {NoLine}] :
                    m.page_count = 0 => m.first_line = NoLine}
    /\ document_type = "none"
    /\ cls_pc = "start"

Return(t) ==
    document_type' = t /\ cls_pc' = "done" /\ UNCHANGED <<msg, notClassVars>>
Raise(e) ==
    cls_pc' = e /\ UNCHANGED <<msg, document_type, notClassVars>>

\* if self.msg['stream'] is Stream.ORDERS: ...
ClassifyOrders ==
    /\ cls_pc = "start"
    /\ msg.stream = "ORDERS"
    /\ IF msg.title.text = "Order List" THEN Return("ORDER_LIST")
       ELSE IF msg.title.text = "Miscellaneous Order"
            THEN IF msg.first_line = NoLine THEN Raise("IndexError")
                 ELSE IF is_stay_order(msg.title, msg.page_count, msg.first_line)
                      THEN Return("STAY_ORDER")
                      ELSE Return("ORDER_LIST")
       ELSE IF msg.title.rules_prefix THEN Return("RULES_ORDER")
       ELSE Raise("NotImplementedError")

\* elif self.msg['stream'] is Stream.SLIP_OPINIONS
ClassifySlipOpinions ==
    /\ cls_pc = "start"
    /\ msg.stream = "SLIP_OPINIONS"
    /\ Return("SLIP_OPINION")

\* elif self.msg['stream'] is Stream.OPINIONS_RELATING_TO_ORDERS
ClassifyOpinionsRelatingToOrders ==
    /\ cls_pc = "start"
    /\ msg.stream = "OPINIONS_RELATING_TO_ORDERS"
    /\ Return("OPINION_RELATING_TO_ORDERS")

\* else: raise NotImplementedError
ClassifyOtherStream ==
    /\ cls_pc = "start"
    /\ msg.stream \notin {"ORDERS", "SLIP_OPINIONS", "OPINIONS_RELATING_TO_ORDERS"}
    /\ Raise("NotImplementedError")

NextClass ==
    \/ ClassifyOrders
    \/ ClassifySlipOpinions
    \/ ClassifyOpinionsRelatingToOrders
    \/ ClassifyOtherStream

(***************************************************************************)
(* SectionExtractor: OrderList.set_sections (release.py), the same code as *)
(* OrderList.get_sections (document_list.py), and the earlier              *)
(* get_order_section_matches of the main.py script.                        *)
(***************************************************************************)
\* A regular expression over tokens: a sequence of elements, each one token
\* out of a set (W), one or more tokens out of a set (' +' is SP, '\s+' is
\* WS), or a lookahead for one token out of a set (Ahead).
W(toks) == [kind |-> "one", toks |-> toks]
SP == [kind |-> "many", toks |-> {" "}]
WS == [kind |-> "many", toks |-> {" ", "\t", "\n"}]
Ahead(toks) == [kind |-> "ahead", toks |-> toks]

\* group 1 of the pattern, its alternatives in their order (release.py
\* 412-414, document_list.py 239-241, main.py 266-268): X* after a word is
\* the word with or without its last letter S.
HeaderPatterns == <<
    <<W({"CERTIORARI"}), SP, W({"--"}), SP, W({"SUMMARY"}), SP,
      W({"DISPOSITION", "DISPOSITIONS"})>>,
    <<W({"ORDER", "ORDERS"}), SP, W({"IN"}), SP, W({"PENDING"}), SP,
      W({"CASE", "CASES"})>>,
    <<W({"CERTIORARI"}), SP, W({"GRANTED"})>>,
    <<W({"CERTIORARI"}), SP, W({"DENIED"})>>,
    <<W({"HABEAS"}), SP, W({"CORPUS"}), SP, W({"DENIED"})>>,
    <<W({"MANDAMUS"}), SP, W({"DENIED"})>>,
    <<W({"REHEARING", "REHEARINGS"}), SP, W({"DENIED"})>> >>

\* The lookahead that ends a body: in release.py and document_list.py the
\* same seven alternatives.
LookaheadPatterns == HeaderPatterns

\* The lookahead of main.py (269-272), where the last three alternatives were
\* written with blanks around the operators: ' HABEAS + CORPUS + DENIED ',
\* ' MANDAMUS + DENIED ', ' REHEARINGS * +DENIED'.
LegacyLookaheadPatterns == <<
    HeaderPatterns[1], HeaderPatterns[2], HeaderPatterns[3], HeaderPatterns[4],
    <<W({" "}), W({"HABEAS"}), W({" "}), SP, W({"CORPUS"}), W({" "}), SP,
      W({"DENIED"}), W({" "})>>,
    <<W({" "}), W({"MANDAMUS"}), W({" "}), SP, W({"DENIED"}), W({" "})>>,
    <<W({" "}), W({"REHEARINGS"}), SP, W({"DENIED"})>> >>

RECURSIVE SkipMany(_, _, _)
\* The first index at or after i that holds no token of toks.
SkipMany(text, i, toks) ==
    IF i <= Len(text) /\ text[i] \in toks THEN SkipMany(text, i + 1, toks) ELSE i

RECURSIVE MatchElems(_, _, _, _)
\* Match elements k.. of pat against text from index i: the index after the
\* match, or 0 when there is none.
MatchElems(text, i, pat, k) ==
    IF k > Len(pat) THEN i
    ELSE IF i > Len(text) \/ text[i] \notin pat[k].toks THEN 0
    ELSE IF pat[k].kind = "many"
         THEN MatchElems(text, SkipMany(text, i, pat[k].toks), pat, k + 1)
    ELSE IF pat[k].kind = "ahead" THEN MatchElems(text, i, pat, k + 1)
    ELSE MatchElems(text, i + 1, pat, k + 1)

RECURSIVE MatchAnyAt(_, _, _, _)
\* The alternation, tried in order from alternative p on.
MatchAnyAt(text, i, pats, p) ==
    IF p > Len(pats) THEN 0
    ELSE LET e == MatchElems(text, i, pats[p], 1)
         IN IF e # 0 THEN e ELSE MatchAnyAt(text, i, pats, p + 1)

RECURSIVE FindFrom(_, _, _)
\* The leftmost index at or after i where an alternative matches, or 0.
FindFrom(text, i, pats) ==
    IF i > Len(text) THEN 0
    ELSE IF MatchAnyAt(text, i, pats, 1) # 0 THEN i
    ELSE FindFrom(text, i + 1, pats)

\* group 2, (.*?(?=lookahead)|.*$) under DOTALL: the body runs from index i
\* up to the first place at or after i where the lookahead matches, or to the
\* end of the text.  The index after the body.
BodyEndGreedy(text, i, lookahead) == Len(text) + 1
BodyEnd(text, i, lookahead) ==
    LET j == FindFrom(text, i, lookahead)
    IN IF j # 0 THEN j ELSE Len(text) + 1

\* The next match of the whole pattern at or after token index `from`:
\* [found, s, h, e] with the header in s..h-1 and the body in h..e-1.
NextSectionMatch(text, from, lookahead) ==
    LET s == FindFrom(text, from, HeaderPatterns)
    IN IF s = 0 THEN [found |-> FALSE, s |-> 0, h |-> 0, e |-> 0]
       ELSE LET h == MatchAnyAt(text, s, HeaderPatterns, 1)
            IN [found |-> TRUE, s |-> s, h |-> h,
                e |-> BodyEnd(text, h, lookahead)]

\* OrderSectionType.from_string (_enums.py) and OrderSection.from_string
\* (main.py): the labels it knows, "unknown" standing for its raise.
from_string(label) ==
    IF label \in {<<"CERTIORARI", "--", "SUMMARY", "DISPOSITIONS">>,
                  <<"CERTIORARI", "--", "SUMMARY", "DISPOSITION">>}
    THEN "CERTIORARI_SUMMARY_DISPOSITIONS"
    ELSE IF label \in {<<"ORDERS", "IN", "PENDING", "CASES">>,
                       <<"ORDER", "IN", "PENDING", "CASE">>}
    THEN "ORDERS_IN_PENDING_CASES"
    ELSE IF label = <<"CERTIORARI", "GRANTED">> THEN "CERTIORARI_GRANTED"
    ELSE IF label = <<"CERTIORARI", "DENIED">> THEN "CERTIORARI_DENIED"
    ELSE IF label = <<"HABEAS", "CORPUS", "DENIED">> THEN "HABEAS_CORPUS_DENIED"
    ELSE IF label = <<"MANDAMUS", "DENIED">> THEN "MANDAMUS_DENIED"
    ELSE IF label \in {<<"REHEARINGS", "DENIED">>, <<"REHEARING", "DENIED">>}
    THEN "REHEARINGS_DENIED"
    ELSE "unknown"

OrderSectionTypes == {
    "CERTIORARI_SUMMARY_DISPOSITIONS", "ORDERS_IN_PENDING_CASES",
    "CERTIORARI_GRANTED", "CERTIORARI_DENIED", "HABEAS_CORPUS_DENIED",
    "MANDAMUS_DENIED", "REHEARINGS_DENIED" }

None == <<"None">>

\* Pieces of order-list text; an orders partition is up to MaxChunks of them.
OrderChunks == {
    <<"CERTIORARI", " ", "DENIED">>,
    <<"CERTIORARI", " ", " ", "GRANTED", "\n">>,
    <<"\n", "HABEAS", " ", "CORPUS", " ", "DENIED", "\n">>,
    <<" ", "MANDAMUS", " ", " ", "DENIED", " ">>,
    <<"ORDER", " ", "IN", " ", "PENDING", " ", "CASES">>,
    <<"21-5050", " ", "LOVE", " ", "V.", " ", "TEXAS", "\n">>,
    <<"CERTIORARI">>,
    <<"DENIED">>,
    <<" ">> }

IdleSect ==
    /\ orders_text = <<>>
    /\ sec_impl = "none"
    /\ sec_pos = 0
    /\ sections = <<>>
    /\ section_matches = <<>>
    /\ sec_pc = "idle"

InitSect ==
    /\ orders_text \in {Flatten(cs) : cs \in SeqsUpTo(OrderChunks, MaxChunks)}
    /\ sec_impl \in {"set_sections", "get_order_section_matches"}
    /\ sec_pos = 0
    /\ sections = <<>>
    /\ section_matches = <<>>
    /\ sec_pc = "loop"

\* m.groups()[0], the header as matched, and m.groups()[1], the body.
MatchHeader(m) == SubSeq(orders_text, m.s, m.h - 1)
MatchBody(m) == SubSeq(orders_text, m.h, m.e - 1)

\* One iteration of `for m in matches` of set_sections: an OrderSection is
\* built from the match and appended.  span is m.span() (0-based, half
\* open) and raw is m.groups()[0], kept beside the object's own fields.
SetSectionsAppend ==
    /\ sec_pc = "loop" /\ sec_impl = "set_sections"
    /\ LET m == NextSectionMatch(orders_text, sec_pos + 1, LookaheadPatterns)
           section_title == SplitWords(MatchHeader(m))
       IN /\ m.found
          /\ from_string(section_title) # "unknown"
          /\ sections' = Append(sections,
                [label |-> section_title,
                 type |-> from_string(section_title),
                 text |-> MatchBody(m),
                 raw |-> MatchHeader(m),
                 span |-> <<m.s - 1, m.e - 1>>])
          /\ sec_pos' = m.e - 1
    /\ UNCHANGED <<orders_text, sec_impl, section_matches, sec_pc, notSectVars>>

\* The iteration in which from_string raises NotImplementedError.
SetSectionsRaise ==
    /\ sec_pc = "loop" /\ sec_impl = "set_sections"
    /\ LET m == NextSectionMatch(orders_text, sec_pos + 1, LookaheadPatterns)
       IN m.found /\ from_string(SplitWords(MatchHeader(m))) = "unknown"
    /\ sec_pc' = "NotImplementedError"
    /\ UNCHANGED <<orders_text, sec_impl, sec_pos, sections, section_matches,
                   notSectVars>>

\* The matches are exhausted: set_sections returns.
SetSectionsReturn ==
    /\ sec_pc = "loop" /\ sec_impl = "set_sections"
    /\ ~NextSectionMatch(orders_text, sec_pos + 1, LookaheadPatterns).found
    /\ sec_pc' = "done"
    /\ UNCHANGED <<orders_text, sec_impl, sec_pos, sections, section_matches,
                   notSectVars>>

\* d[k] = v of a Python dict, the dict being a function on its keys.
DictSet(d, k, v) == [x \in DOMAIN d \cup {k} |-> IF x = k THEN v ELSE d[x]]

\* One iteration of `for m in matches` of get_order_section_matches:
\* retv[OrderSection.from_string(section_title)] = section_content.
LegacyStore ==
    /\ sec_pc = "loop" /\ sec_impl = "get_order_section_matches"
    /\ LET m == NextSectionMatch(orders_text, sec_pos + 1,
                                 LegacyLookaheadPatterns)
           section_title == SplitWords(MatchHeader(m))
       IN /\ m.found
          /\ from_string(section_title) # "unknown"
          /\ section_matches' =
                DictSet(section_matches, from_string(section_title),
                        MatchBody(m))
          /\ sec_pos' = m.e - 1
    /\ UNCHANGED <<orders_text, sec_impl, sections, sec_pc, notSectVars>>

LegacyRaise ==
    /\ sec_pc = "loop" /\ sec_impl = "get_order_section_matches"
    /\ LET m == NextSectionMatch(orders_text, sec_pos + 1,
                                 LegacyLookaheadPatterns)
       IN m.found /\ from_string(SplitWords(MatchHeader(m))) = "unknown"
    /\ sec_pc' = "NotImplementedError"
    /\ UNCHANGED <<orders_text, sec_impl, sec_pos, sections, section_matches,
                   notSectVars>>

\* After the loop: `for section in OrderSection: if section not in retv:
\* retv[section] = None`, then return retv.
LegacyFillAndReturn ==
    /\ sec_pc = "loop" /\ sec_impl = "get_order_section_matches"
    /\ ~NextSectionMatch(orders_text, sec_pos + 1,
                         LegacyLookaheadPatterns).found
    /\ section_matches' =
          [k \in OrderSectionTypes |->
              IF k \in DOMAIN section_matches THEN section_matches[k] ELSE None]
    /\ sec_pc' = "done"
    /\ UNCHANGED <<orders_text, sec_impl, sec_pos, sections, notSectVars>>

NextSect ==
    \/ SetSectionsAppend
    \/ SetSectionsRaise
    \/ SetSectionsReturn
    \/ LegacyStore
    \/ LegacyRaise
    \/ LegacyFillAndReturn

(***************************************************************************)
(* Opinion attribution: Opinion.get_type and set_authorship.               *)
(*                                                                         *)
(* An attribution sentence is a sequence of tokens: words, punctuation,    *)
(* the Justice titles that follow a name (", J.,", ", JJ.,", ", C. J.,")   *)
(* and explicit white space.                                               *)
(***************************************************************************)

\* JusticeTag, in the order of the enumeration.
JusticeTags == <<
    "ROBERTS", "THOMAS", "BREYER", "ALITO", "SOTOMAYOR", "KAGAN", "GORSUCH",
    "KAVANAUGH", "BARRETT", "JACKSON", "GINSBURG", "KENNEDY", "SCALIA",
    "SOUTER", "PER_CURIAM" >>

\* The last names that are keys of the table of JusticeTag.from_string.
\* There is no key 'JACKSON'.
LastNameKeys == {
    "ROBERTS", "THOMAS", "BREYER", "ALITO", "SOTOMAYOR", "KAGAN", "GORSUCH",
    "KAVANAUGH", "BARRETT", "GINSBURG", "KENNEDY", "SCALIA", "SOUTER"}

\* JusticeTag.from_string: the tag of a key of its table, and
\* NotImplementedError for any other string.
JusticeTag_from_string(s) ==
    IF s \in LastNameKeys THEN s
    ELSE IF s = "CHIEF JUSTICE" THEN "ROBERTS"
    ELSE IF s = "PER CURIAM" THEN "PER_CURIAM"
    ELSE IF \E t \in (LastNameKeys \cup {"JACKSON"}) \ {"ROBERTS"} :
                s = "JUSTICE " \o t
         THEN CHOOSE t \in LastNameKeys \cup {"JACKSON"} : s = "JUSTICE " \o t
    ELSE "NotImplementedError"

\* The words of the vocabulary that '\b(?!III)[A-Z]{4,}\b' matches: four or
\* more capital letters and nothing else ("PER", "THE" and "AND" are
\* shorter).
CapsWords ==
    LastNameKeys \cup {"JACKSON", "JUSTICE", "CHIEF", "CURIAM", "DECREE",
                       "ORDER", "JUDGMENT"}

\* The tokens that hold no word character at their ends, so that '\w+'
\* cannot reach into them.
NonWordToks == {" ", "\t", "\n", "-", ".", ",", ", J.,", ", JJ.,", ", C. J.,"}

RECURSIVE SubAll(_, _, _, _)
\* re.sub(pats, repl, text) from index i on: every leftmost match of one of
\* the patterns is replaced by repl, the other tokens are kept.
SubAll(text, i, pats, repl) ==
    IF i > Len(text) THEN <<>>
    ELSE LET e == MatchAnyAt(text, i, pats, 1) IN
         IF e # 0 /\ e > i THEN repl \o SubAll(text, e, pats, repl)
         ELSE <<text[i]>> \o SubAll(text, i + 1, pats, repl)

RECURSIVE remove_hyphenation(_)
\* '(\w+)-$\n(\w+)' -> '\1\2': a word, a hyphen at the end of a line and
\* the word that starts the next line become one word.
remove_hyphenation(text) ==
    IF Len(text) < 4 THEN text
    ELSE IF /\ text[1] \notin NonWordToks
            /\ text[2] = "-"
            /\ text[3] = "\n"
            /\ text[4] \notin NonWordToks
         THEN <<text[1] \o text[4]>> \o remove_hyphenation(SubSeq(text, 5, Len(text)))
         ELSE <<text[1]>> \o remove_hyphenation(Tail(text))

\* The alternatives of the pattern of remove_justice_titles, in its order.
TitlePatterns == <<
    <<W({", J.,"})>>,
    <<W({", JJ.,"})>>,
    <<W({", C. J.,"})>>,
    <<W({"JUSTICE"}), WS>>,
    <<W({"THE"}), WS, Ahead({"CHIEF"})>>,
    <<W({"CHIEF"}), WS, W({"JUSTICE"})>> >>

remove_justice_titles(text) == SubAll(text, 1, TitlePatterns, <<>>)

RECURSIVE JoinWords(_)
\* ' '.join(words)
JoinWords(words) ==
    IF Len(words) <= 1 THEN words
    ELSE <<Head(words), " ">> \o JoinWords(Tail(words))

\* ' '.join(s.split())
remove_extra_whitespace(text) == JoinWords(SplitWords(text))

\* string.replace('CHIEF JUSTICE', 'ROBERTS')
chief_justice_to_last_name(text) ==
    SubAll(text, 1, << <<W({"CHIEF"}), W({" "}), W({"JUSTICE"})>> >>, <<"ROBERTS">>)

\* re.search(pattern, text) finds a match.
Search(pats, text) == FindFrom(text, 1, pats) # 0

IsCapsWord(tok) == tok \in CapsWords

RECURSIVE Reverse(_)
Reverse(s) == IF s = <<>> THEN <<>> ELSE Reverse(Tail(s)) \o <<Head(s)>>

\* get_justices_from_sent with the list built from the last match to the
\* first.
get_justices_from_sent_reversed(sent0) ==
    LET sent == chief_justice_to_last_name(remove_extra_whitespace(
                    remove_justice_titles(remove_hyphenation(sent0))))
        found == Reverse(SelectSeq(sent, IsCapsWord))
        tags == [i \in DOMAIN found |-> JusticeTag_from_string(found[i])]
    IN  IF \E i \in DOMAIN tags : tags[i] = "NotImplementedError"
        THEN [error |-> "NotImplementedError", tags |-> <<>>]
        ELSE [error |-> "", tags |-> tags]

\* get_justices_from_sent: the list of tags, or the error it raises.
get_justices_from_sent(sent0) ==
    LET sent == chief_justice_to_last_name(remove_extra_whitespace(
                    remove_justice_titles(remove_hyphenation(sent0))))
        found == SelectSeq(sent, IsCapsWord)
        tags == [i \in DOMAIN found |-> JusticeTag_from_string(found[i])]
    IN  IF Search(<< <<W({"PER"}), WS, W({"CURIAM"})>> >>, sent)
        THEN [error |-> "", tags |-> <<"PER_CURIAM">>]
        ELSE IF \E i \in DOMAIN tags : tags[i] = "NotImplementedError"
             THEN [error |-> "NotImplementedError", tags |-> <<>>]
             ELSE [error |-> "", tags |-> tags]

\* re.search('unanimous', sent)
HasUnanimous(sent) == \E i \in DOMAIN sent : sent[i] \in {"unanimous", "unanimously"}

\* OpinionDocument.set_authorship: the author and the joiners it sets, or
\* the error it raises.  The list unpacks into its first tag and the rest
\* (ValueError on an empty list); from_string never yields None, so the
\* branch for joiners == [None] is never taken.
set_authorship(sent) ==
    LET r == get_justices_from_sent(sent)
        rest == Tail(r.tags)
        Joins(t) == t \notin {Head(r.tags), "PER_CURIAM"}
    IN  IF r.error # "" THEN [error |-> r.error, author |-> "unset", joiners |-> None]
        ELSE IF r.tags = <<>>
             THEN [error |-> "ValueError", author |-> "unset", joiners |-> None]
        ELSE [error |-> "",
              author |-> Head(r.tags),
              joiners |-> IF rest # <<>> THEN rest
                          ELSE IF HasUnanimous(sent)
                               THEN SelectSeq(JusticeTags, Joins)
                               ELSE None]

\* The patterns of Opinion.get_type and the type of each, in the order of
\* its table.  '(?:dissent)\w+\b' and '(?:concurr)\w+\b' need a word
\* character after the stem; 'PER CURIAM' has one blank; the last pattern
\* ignores case.
TypePatternsConcurrenceFirst == <<
    [pats |-> << <<W({"Statement"}), WS, W({"of"}), WS>> >>, type |-> "STATEMENT"],
    [pats |-> << <<W({"concurring", "concurred"})>> >>, type |-> "CONCURRENCE"],
    [pats |-> << <<W({"dissenting", "dissents"})>> >>, type |-> "DISSENT"],
    [pats |-> << <<W({"delivered"}), WS, W({"an"}), WS, W({"opinion"})>> >>,
     type |-> "PLURALITY"],
    [pats |-> << <<W({"delivered"}), WS, W({"the"}), WS, W({"opinion"})>> >>,
     type |-> "MAJORITY"],
    [pats |-> << <<W({"PER"}), W({" "}), W({"CURIAM"})>> >>, type |-> "PER_CURIAM"],
    [pats |-> << <<W({"DECREE", "Decree", "decree"})>>,
                 <<W({"ORDER", "Order", "order"}), WS, W({"AND", "and"}), WS,
                   W({"JUDGMENT", "Judgment", "judgment"})>> >>,
     type |-> "DECREE"] >>
TypePatterns == <<
    [pats |-> << <<W({"Statement"}), WS, W({"of"}), WS>> >>, type |-> "STATEMENT"],
    [pats |-> << <<W({"dissenting", "dissents"})>> >>, type |-> "DISSENT"],
    [pats |-> << <<W({"concurring", "concurred"})>> >>, type |-> "CONCURRENCE"],
    [pats |-> << <<W({"delivered"}), WS, W({"an"}), WS, W({"opinion"})>> >>,
     type |-> "PLURALITY"],
    [pats |-> << <<W({"delivered"}), WS, W({"the"}), WS, W({"opinion"})>> >>,
     type |-> "MAJORITY"],
    [pats |-> << <<W({"PER"}), W({" "}), W({"CURIAM"})>> >>, type |-> "PER_CURIAM"],
    [pats |-> << <<W({"DECREE", "Decree", "decree"})>>,
                 <<W({"ORDER", "Order", "order"}), WS, W({"AND", "and"}), WS,
                   W({"JUDGMENT", "Judgment", "judgment"})>> >>,
     type |-> "DECREE"] >>

RECURSIVE TypeFrom(_, _)
\* The loop of get_type from entry k of its table on.
TypeFrom(text, k) ==
    IF k > Len(TypePatterns) THEN "NotImplementedError"
    ELSE IF Search(TypePatterns[k].pats, text) THEN TypePatterns[k].type
    ELSE TypeFrom(text, k + 1)

\* Opinion.get_type: the type, or NotImplementedError.
get_type(text) == TypeFrom(remove_hyphenation(text), 1)

\* string.replace('.', ' . ')
add_padding_to_periods(text) ==
    SubAll(text, 1, << <<W({"."})>> >>, <<" ", ".", " ">>)

\* The lookahead of Syllabus.assign_authorship matches at index j:
\* '\.[^.!?]+filed', or one of the words, or 'all\s+but'.
SyllabusStopAt(text, j) ==
    \/ text[j] \in {"unanimous", "unanimously", "case", "cases", "Part",
                     "Parts", "judgment", "except"}
    \/ MatchElems(text, j, <<W({"all"}), WS, W({"but"})>>, 1) # 0
    \/ /\ text[j] = "."
       /\ \E k \in (j + 2)..Len(text) :
            /\ text[k] = "filed"
            /\ \A m \in (j + 1)..(k - 1) :
                    text[m] \notin {".", ", J.,", ", JJ.,", ", C. J.,"}

\* The sentence Syllabus.assign_authorship hands to set_authorship: the
\* text before the first place where the lookahead matches, None when it
\* matches nowhere (require_non_none then raises AssertionError).
SyllabusSentence(text) ==
    LET stops == {j \in DOMAIN text : SyllabusStopAt(text, j)}
    IN  IF stops = {} THEN None
        ELSE SubSeq(text, 1, (CHOOSE j \in stops : \A k \in stops : j <= k) - 1)

\* The pieces attribution sentences are made of.
SentenceChunks == {
    <<"KAVANAUGH", ", J.,", " ", "delivered", " ", "the", " ", "opinion">>,
    <<" ", "ROBERTS", ", C. J.,">>,
    <<" ", "JUSTICE", " ", "KAVANAUGH">>,
    <<" ", "unanimous">>,
    <<"JUSTICE", " ", "SOTOMAYOR", " ", "dis", "-", "\n", "senting">>,
    <<" ", ".", " ", "ALITO", ", J.,", " ", "filed", " ", "a", " ",
      "concurring", " ", "opinion">>,
    <<"PER", " ", "CURIAM">>,
    <<"PER", "\n", "CURIAM", " ", "decree">>,
    <<" ", "JACKSON">>,
    <<"Statement", " ", "of", " ">>,
    <<"THE", " ", "CHIEF", " ", "JUSTICE", " ", "delivered", " ", "an", " ",
      "opinion">> }

\* The alignment sentence of Bostock v. Clayton County.
Scenario4Sentence == <<
    "KAVANAUGH", ", J.,", " ", "delivered", " ", "the", " ", "opinion", " ",
    "of", " ", "the", " ", "Court", ",", " ", "in", " ", "which", " ",
    "ROBERTS", ", C. J.,", " ", "and", " ", "THOMAS", ",", " ", "BREYER", ",",
    " ", "SOTOMAYOR", ",", " ", "KAGAN", ",", " ", "and", " ", "GORSUCH",
    ", JJ.,", " ", "joined", "." >>

AttributionSentences ==
    {Flatten(cs) : cs \in SeqsUpTo(SentenceChunks, MaxSentChunks)}
        \cup {Scenario4Sentence}

IdleOpinion ==
    /\ op_kind = "Idle"
    /\ attribution_sentence = <<>>
    /\ type = "unset"
    /\ author = "unset"
    /\ joiners = None
    /\ op_pc = "idle"

\* An Opinion or a Syllabus whose attribution sentence has been found;
\* neither the type nor the authorship is set yet.
InitOpinion ==
    /\ op_kind \in {"Opinion", "Syllabus"}
    /\ attribution_sentence \in AttributionSentences
    /\ type = "unset"
    /\ author = "unset"
    /\ joiners = None
    /\ op_pc = "new"

\* Opinion.__init__: self.type = self.get_type(self._attribution_sentence)
OpinionGetType ==
    /\ op_kind = "Opinion"
    /\ op_pc = "new"
    /\ LET t == get_type(attribution_sentence) IN
        IF t = "NotImplementedError"
        THEN /\ op_pc' = "NotImplementedError"
             /\ type' = type
        ELSE /\ op_pc' = "typed"
             /\ type' = t
    /\ UNCHANGED <<op_kind, attribution_sentence, author, joiners, notOpinionVars>>

\* The assignments of set_authorship, or its raise.
SetAuthorship(sent) ==
    LET r == set_authorship(sent) IN
    IF r.error # ""
    THEN /\ op_pc' = r.error
         /\ UNCHANGED <<author, joiners>>
    ELSE /\ op_pc' = "done"
         /\ author' = r.author
         /\ joiners' = r.joiners

\* Opinion.assign_authorship
OpinionAssignAuthorship ==
    /\ op_kind = "Opinion"
    /\ op_pc = "typed"
    /\ SetAuthorship(remove_justice_titles(remove_hyphenation(attribution_sentence)))
    /\ UNCHANGED <<op_kind, attribution_sentence, type, notOpinionVars>>

\* Syllabus.get_attribution_sentence from the match of its pattern on, and
\* Syllabus.assign_authorship.
SyllabusAssignAuthorship ==
    /\ op_kind = "Syllabus"
    /\ op_pc = "new"
    /\ LET sent == SyllabusSentence(add_padding_to_periods(
                        remove_justice_titles(remove_hyphenation(attribution_sentence))))
       IN IF sent = None
          THEN /\ op_pc' = "AssertionError"
               /\ UNCHANGED <<author, joiners>>
          ELSE SetAuthorship(sent)
    /\ UNCHANGED <<op_kind, attribution_sentence, type, notOpinionVars>>

NextOpinion ==
    \/ OpinionGetType
    \/ OpinionAssignAuthorship
    \/ SyllabusAssignAuthorship

(***************************************************************************)
(* Syllabus alignment: Syllabus.alignment_summary and                      *)
(* SlipOpinion.get_alignment_summary.                                      *)
(*                                                                         *)
(* A sentence of the parsed document is what the code reads of it: which   *)
(* words its text contains and what the dependency parse gives for its     *)
(* verb and its 'joined' clause.  The parse comes from the language model  *)
(* and is an input.                                                        *)
(*   filed, concurring, dissenting, opinions, unanimous: the word is in    *)
(*       sent.text ('unanimous' also stands for 'all other Members');      *)
(*   verb: the sentence has a token 'delivered' or 'announced' (without    *)
(*       'filed') or a token 'filed';                                      *)
(*   nsubj: the texts of the children of that token with dep_ 'nsubj';     *)
(*   joined: the texts of the upper-case tokens longer than 3 in the       *)
(*       subtree of the token 'joined' that are no 'pobj', None when the   *)
(*       sentence has no 'joined';                                         *)
(*   propn: the texts of the tokens with pos_ 'PROPN'.                     *)
(***************************************************************************)
Sent(filed, concurring, dissenting, opinions_, unanimous, verb, nsubj, joined, propn) ==
    [filed |-> filed, concurring |-> concurring, dissenting |-> dissenting,
     opinions |-> opinions_, unanimous |-> unanimous, verb |-> verb,
     nsubj |-> nsubj, joined |-> joined, propn |-> propn]

AlignmentSentences == {
    \* KAVANAUGH delivered the opinion, in which ROBERTS and THOMAS joined.
    Sent(FALSE, FALSE, FALSE, FALSE, FALSE, TRUE, <<"KAVANAUGH">>,
         <<"ROBERTS", "THOMAS">>, <<"KAVANAUGH", "ROBERTS", "THOMAS">>),
    \* KAGAN delivered the opinion for a unanimous Court.
    Sent(FALSE, FALSE, FALSE, FALSE, TRUE, TRUE, <<"KAGAN">>, None,
         <<"KAGAN", "Court">>),
    \* BARRETT took no part in the consideration of the case.
    Sent(FALSE, FALSE, FALSE, FALSE, FALSE, FALSE, <<>>, None, <<"BARRETT">>),
    \* ALITO filed a dissenting opinion, in which GORSUCH joined.
    Sent(TRUE, FALSE, TRUE, FALSE, FALSE, TRUE, <<"ALITO">>, <<"GORSUCH">>,
         <<"ALITO", "GORSUCH">>),
    \* THOMAS filed a concurring opinion.
    Sent(TRUE, TRUE, FALSE, FALSE, FALSE, TRUE, <<"THOMAS">>, None,
         <<"THOMAS">>),
    \* SOTOMAYOR filed an opinion concurring in part and dissenting in part,
    \* in which KAGAN joined.
    Sent(TRUE, TRUE, TRUE, FALSE, FALSE, TRUE, <<"SOTOMAYOR">>, <<"KAGAN">>,
         <<"SOTOMAYOR", "KAGAN">>),
    \* ALITO and KAVANAUGH filed opinions concurring in the judgment.
    Sent(TRUE, TRUE, FALSE, TRUE, FALSE, TRUE, <<"ALITO">>, None,
         <<"ALITO", "KAVANAUGH">>),
    \* BREYER filed a statement.
    Sent(TRUE, FALSE, FALSE, FALSE, FALSE, TRUE, <<"BREYER">>, None,
         <<"BREYER">>),
    \* JACKSON filed a dissenting opinion.
    Sent(TRUE, FALSE, TRUE, FALSE, FALSE, TRUE, <<"JACKSON">>, None,
         <<"JACKSON">>),
    \* A dissenting opinion was filed by GORSUCH: 'filed' has no nsubj child.
    Sent(TRUE, FALSE, TRUE, FALSE, FALSE, TRUE, <<>>, None, <<"GORSUCH">>) }

\* The tags of create_court(current=False), in its order.
Court == <<
    "ROBERTS", "THOMAS", "BREYER", "ALITO", "SOTOMAYOR", "KAGAN", "GORSUCH",
    "KAVANAUGH", "BARRETT", "JACKSON", "SCALIA", "SOUTER", "KENNEDY",
    "GINSBURG" >>

\* [JusticeTag.from_string(t.text) for t in ...]
FromStrings(texts) == [i \in DOMAIN texts |-> JusticeTag_from_string(texts[i])]
Raises(tags) == \E i \in DOMAIN tags : tags[i] = "NotImplementedError"

Outcome(error, ma, mj, ops) ==
    [error |-> error, majority_author |-> ma, majority_joiners |-> mj,
     opinions |-> ops]

\* One pass of the loop of alignment_summary over a sentence without
\* 'filed'.  The scalar None is the string "None".
MajoritySentence(s, ma, mj, ops) ==
    LET sets_author == s.verb /\ ma = "None"
        sets_joiners == s.joined # None /\ mj = None
        ma1 == IF sets_author THEN FromStrings(s.nsubj)[1] ELSE ma
        mj1 == IF sets_joiners THEN FromStrings(s.joined) ELSE mj
        NotAuthor(t) == t # ma1
        mj2 == IF s.unanimous THEN SelectSeq(Court, NotAuthor) ELSE mj1
    IN  IF sets_author /\ Raises(FromStrings(s.nsubj))
        THEN Outcome("NotImplementedError", ma, mj, ops)
        ELSE IF sets_author /\ s.nsubj = <<>>
        THEN Outcome("IndexError", ma, mj, ops)
        ELSE IF sets_joiners /\ Raises(FromStrings(s.joined))
        THEN Outcome("NotImplementedError", ma, mj, ops)
        ELSE Outcome("", ma1, mj2, Append(ops, <<"MAJORITY", ma1, mj2>>))

\* The type of a sentence with 'filed'.
FiledType(s) ==
    IF s.concurring /\ s.dissenting THEN "CONCURRENCE_AND_DISSENT"
    ELSE IF s.concurring THEN "CONCURRENCE"
    ELSE IF s.dissenting THEN "DISSENT"
    ELSE "NotImplementedError"

\* One pass of the loop over a sentence with 'filed'.
FiledSentence(s, ma, mj, ops) ==
    IF FiledType(s) = "NotImplementedError"
    THEN Outcome("NotImplementedError", ma, mj, ops)
    ELSE IF s.opinions /\ s.joined = None
    THEN IF Raises(FromStrings(s.propn))
         THEN Outcome("NotImplementedError", ma, mj, ops)
         ELSE Outcome("", ma, mj,
                  ops \o [i \in DOMAIN s.propn |->
                            <<FiledType(s), FromStrings(s.propn)[i], None>>])
    ELSE IF s.verb /\ Raises(FromStrings(s.nsubj))
    THEN Outcome("NotImplementedError", ma, mj, ops)
    ELSE IF s.verb /\ s.nsubj = <<>>
    THEN Outcome("IndexError", ma, mj, ops)
    ELSE IF s.joined # None /\ Raises(FromStrings(s.joined))
    THEN Outcome("NotImplementedError", ma, mj, ops)
    ELSE Outcome("", ma, mj,
             Append(ops, <<FiledType(s),
                           IF s.verb THEN FromStrings(s.nsubj)[1] ELSE "None",
                           IF s.joined # None THEN FromStrings(s.joined)
                                              ELSE None>>))

\* The documents the loop runs over: up to MaxSents sentences.
Docs == SeqsUpTo(AlignmentSentences, MaxSents)

\* The opinions of a flagged release, as set_documents made them.
SlipOpinionLists ==
    SeqsUpTo({<<"PER_CURIAM", "PER_CURIAM">>, <<"DISSENT", "THOMAS">>,
              <<"CONCURRENCE", "ALITO">>}, MaxSlipOpinions)

IdleFlags ==
    /\ is_per_curiam = FALSE
    /\ is_decree = FALSE
    /\ slip_opinions = <<>>

IdleAlignment ==
    /\ doc = <<>>
    /\ sent_i = 0
    /\ majority_author = "None"
    /\ majority_joiners = None
    /\ opinions = <<>>
    /\ alignment = None
    /\ al_pc = "idle"

\* A release without flag has a syllabus: alignment_summary before its
\* loop.  A release flagged per curiam or decree has none: set_documents
\* has made its opinions, get_alignment_summary is about to run.
InitAlignment ==
    /\ is_per_curiam \in BOOLEAN
    /\ is_decree \in BOOLEAN
    /\ slip_opinions \in IF is_per_curiam \/ is_decree THEN SlipOpinionLists ELSE {<<>>}
    /\ doc \in IF is_per_curiam \/ is_decree THEN {<<>>} ELSE Docs
    /\ sent_i = 1
    /\ majority_author = "None"
    /\ majority_joiners = None
    /\ opinions = <<>>
    /\ alignment = None
    /\ al_pc = IF is_per_curiam \/ is_decree THEN "documents" ELSE "loop"

\* What the pass over the next sentence gives.
ThisPass ==
    IF doc[sent_i].filed
    THEN FiledSentence(doc[sent_i], majority_author, majority_joiners, opinions)
    ELSE MajoritySentence(doc[sent_i], majority_author, majority_joiners, opinions)

\* for sent in doc.sents: a pass that completes.
AlignSentence ==
    /\ al_pc = "loop"
    /\ sent_i <= Len(doc)
    /\ ThisPass.error = ""
    /\ majority_author' = ThisPass.majority_author
    /\ majority_joiners' = ThisPass.majority_joiners
    /\ opinions' = ThisPass.opinions
    /\ sent_i' = sent_i + 1
    /\ UNCHANGED <<doc, alignment, al_pc, notAlignmentVars>>

\* A pass that raises: alignment_summary ends without a list.
AlignRaise ==
    /\ al_pc = "loop"
    /\ sent_i <= Len(doc)
    /\ ThisPass.error # ""
    /\ al_pc' = ThisPass.error
    /\ UNCHANGED <<doc, sent_i, majority_author, majority_joiners, opinions,
                   alignment, notAlignmentVars>>

\* return opinions
AlignReturn ==
    /\ al_pc = "loop"
    /\ sent_i > Len(doc)
    /\ al_pc' = "returned"
    /\ UNCHANGED <<doc, sent_i, majority_author, majority_joiners, opinions,
                   alignment, notAlignmentVars>>

RECURSIVE Voters(_, _)
\* The list that get_alignment_summary builds out of the opinions whose type
\* is one of types: the author of each, then its joiners.
Voters(ops, types) ==
    IF ops = <<>> THEN <<>>
    ELSE (IF Head(ops)[1] \in types
          THEN <<Head(ops)[2]>> \o (IF Head(ops)[3] # None THEN Head(ops)[3] ELSE <<>>)
          ELSE <<>>) \o Voters(Tail(ops), types)

\* len(list) and len(set(list))
CountAll(list) == Len(list)
CountDistinct(list) == Cardinality({list[i] : i \in DOMAIN list})

\* get_alignment_summary with the majority always counted.
get_alignment_summary_counted(tuples) ==
    IF tuples = <<>> THEN [error |-> "ValueError"]
    ELSE IF \E i \in DOMAIN tuples : tuples[i][2] = "None"
    THEN [error |-> "AssertionError"]
    ELSE LET majority == <<Head(tuples)[2]>>
                 \o (IF Head(tuples)[3] # None THEN Head(tuples)[3] ELSE <<>>)
                 \o Voters(Tail(tuples), {"CONCURRENCE", "CONCURRENCE_AND_DISSENT"})
             dissent == Voters(Tail(tuples), {"DISSENT"})
         IN [error |-> "", majority |-> majority, dissent |-> dissent,
             score |-> <<CountDistinct(majority), CountDistinct(dissent)>>]

\* SlipOpinion.get_alignment_summary with a syllabus, on the list that
\* get_alignment_tuple returned: (majority, dissent, score), the score as the
\* pair of its two counts, or the error raised.
get_alignment_summary(tuples) ==
    IF tuples = <<>> THEN [error |-> "ValueError"]
    ELSE IF \E i \in DOMAIN tuples : tuples[i][2] = "None"
    THEN [error |-> "AssertionError"]
    ELSE LET majority_opinion == Head(tuples)
             majority == <<majority_opinion[2]>>
                 \o (IF majority_opinion[3] # None THEN majority_opinion[3] ELSE <<>>)
                 \o Voters(Tail(tuples), {"CONCURRENCE", "CONCURRENCE_AND_DISSENT"})
             dissent == Voters(Tail(tuples), {"DISSENT"})
             majority_count ==
                 IF majority_opinion[1] \in {"PER_CURIAM", "DECREE"} THEN 9
                 ELSE CountDistinct(majority)
         IN [error |-> "", majority |-> majority, dissent |-> dissent,
             score |-> <<majority_count, CountDistinct(dissent)>>]

\* self.alignment = self.get_alignment_summary()
GetAlignmentSummary ==
    /\ al_pc = "returned"
    /\ LET r == get_alignment_summary(opinions) IN
       IF r.error # ""
       THEN /\ al_pc' = r.error
            /\ alignment' = alignment
       ELSE /\ al_pc' = "scored"
            /\ alignment' = <<r.majority, r.dissent, r.score>>
    /\ UNCHANGED <<doc, sent_i, majority_author, majority_joiners, opinions,
                   notAlignmentVars>>

\* self.alignment = self.get_alignment_summary() without a syllabus: the
\* majority opinion is (DECREE, PER_CURIAM, None) or (PER_CURIAM,
\* PER_CURIAM, None) and the list of the other opinions is empty.
GetAlignmentSummaryNoSyllabus ==
    /\ al_pc = "documents"
    /\ LET r == get_alignment_summary(
                    << <<IF is_decree THEN "DECREE" ELSE "PER_CURIAM",
                         "PER_CURIAM", None>> >>)
       IN /\ al_pc' = "scored"
          /\ alignment' = <<r.majority, r.dissent, r.score>>
    /\ UNCHANGED <<doc, sent_i, majority_author, majority_joiners, opinions,
                   notAlignmentVars>>

NextAlignment ==
    \/ AlignSentence
    \/ AlignRaise
    \/ AlignReturn
    \/ GetAlignmentSummary
    \/ GetAlignmentSummaryNoSyllabus

(***************************************************************************)
(* Page segmentation: OrderListParserStrategy.parse and                    *)
(* OpinionParserStrategy.parse (parser.py), split_order_list_text          *)
(* (main.py).                                                              *)
(*                                                                         *)
(* A page is a sequence of tokens: "\n" and the contents of lines.  A line *)
(* is the sequence of the tokens between two "\n".                         *)
(***************************************************************************)

RECURSIVE splitlines(_)
\* str.splitlines(): the lines of a text; a final "\n" opens no line.
splitlines(text) ==
    IF text = <<>> THEN <<>>
    ELSE LET nl == {i \in DOMAIN text : text[i] = "\n"} IN
         IF nl = {} THEN <<text>>
         ELSE LET k == CHOOSE i \in nl : \A j \in nl : i <= j IN
              <<SubSeq(text, 1, k - 1)>> \o splitlines(SubSeq(text, k + 1, Len(text)))

RECURSIVE JoinLines(_)
\* '\n'.join(lines)
JoinLines(lines) ==
    IF lines = <<>> THEN <<>>
    ELSE IF Len(lines) = 1 THEN lines[1]
    ELSE lines[1] \o <<"\n">> \o JoinLines(Tail(lines))

\* line.isspace(): at least one character and white space only.
isspace(line) == line # <<>> /\ \A i \in DOMAIN line : line[i] \in {" ", "\t"}

\* line.strip().isnumeric(): digits only, and at least one, once the white
\* space around them is removed.
StripIsNumeric(line) == line \in {<<"7">>, <<" 7 ">>}

\* lines[n:]
DropLines(lines, n) == SubSeq(lines, n + 1, Len(lines))

\* The pages of the releases segmented.
SegmentPages == {
    <<"a", "\n", "a", "\n", "7">>,
    <<"b", "\n", " 7 ", "\n">>,
    <<"c", "\n", "7", "\n", " ">>,
    <<"h1", "\n", "h2", "\n", "h3", "\n", "d1", "\n", "d2">>,
    <<" ", "\n", "h2", "\n", "e1", "\n", "e2">>,
    <<"\n", "h2", "\n", "h3", "\n", "f1">>,
    <<"h1", "\n", "g1">>,
    <<>> }

\* The three segmenters, named after their functions.
Segmenters == {"OrderListParserStrategy", "split_order_list_text",
               "OpinionParserStrategy"}

IdleSegment ==
    /\ seg_impl = "none"
    /\ release_title = ""
    /\ page_texts = <<>>
    /\ page_i = 0
    /\ order_text = None
    /\ opinion_text = <<>>
    /\ full_text = <<>>
    /\ first_op_page = TRUE
    /\ placed = <<>>
    /\ seg_pc = "idle"

\* A segmenter before its loop over the page ranges; each range holds the
\* text of its page.  retv of OrderListParserStrategy has no key
\* 'orders_text' yet (None), the texts of the two others are ''.  The title
\* is msg['title'], and the order_type of that name for the script.
InitSegment ==
    /\ seg_impl \in Segmenters
    /\ release_title \in IF seg_impl = "OpinionParserStrategy"
                         THEN {"Slip Opinion"}
                         ELSE {"Order List", "Miscellaneous Order"}
    /\ page_texts \in SeqsUpTo(SegmentPages, MaxSegPages)
    /\ page_i = 1
    /\ order_text = IF seg_impl = "OrderListParserStrategy" THEN None ELSE <<>>
    /\ opinion_text = <<>>
    /\ full_text = <<>>
    /\ first_op_page = TRUE
    /\ placed = <<>>
    /\ seg_pc = "loop"

InLoop(impl) ==
    /\ seg_impl = impl
    /\ seg_pc = "loop"
    /\ page_i <= Len(page_texts)

\* The page is not read: the test of OrderListParserStrategy.parse
\* short-circuits for a Miscellaneous Order and for any other title than
\* 'Order List'.
ReadsLastLine ==
    IF seg_impl = "OrderListParserStrategy" THEN release_title = "Order List"
    ELSE seg_impl = "split_order_list_text"

\* segment.splitlines()[-1].strip().isnumeric()
EndsWithPageNumber(segment) ==
    LET lines == splitlines(segment) IN StripIsNumeric(lines[Len(lines)])

\* '\n'.join(segment.splitlines()[:-1])
CropPageNumber(segment) ==
    LET lines == splitlines(segment) IN JoinLines(SubSeq(lines, 1, Len(lines) - 1))

\* OrderListParserStrategy.parse: one pass of the loop.
OrderListParsePage ==
    /\ InLoop("OrderListParserStrategy")
    /\ LET segment == page_texts[page_i]
           is_misc_order == release_title = "Miscellaneous Order"
           is_order_list == release_title = "Order List"
       IN /\ is_order_list => splitlines(segment) # <<>>
          /\ IF is_misc_order \/ (is_order_list /\ EndsWithPageNumber(segment))
             THEN LET cropped == IF is_order_list THEN CropPageNumber(segment)
                                 ELSE segment
                  IN /\ order_text' = IF order_text # None
                                      THEN order_text \o cropped ELSE cropped
                     /\ placed' = Append(placed, "orders")
             ELSE /\ order_text' = order_text
                  /\ placed' = Append(placed, "nowhere")
    /\ page_i' = page_i + 1
    /\ UNCHANGED <<seg_impl, release_title, page_texts, opinion_text,
                   full_text, first_op_page, seg_pc, notSegmentVars>>

\* split_order_list_text: a Miscellaneous Order of one page.
SplitOrderListMisc ==
    /\ InLoop("split_order_list_text")
    /\ release_title = "Miscellaneous Order"
    /\ Len(page_texts) = 1
    /\ full_text' = page_texts[1]
    /\ order_text' = page_texts[1]
    /\ placed' = <<"orders">>
    /\ page_i' = 2
    /\ UNCHANGED <<seg_impl, release_title, page_texts, opinion_text,
                   first_op_page, seg_pc, notSegmentVars>>

\* split_order_list_text: one pass of the loop.
SplitOrderListPage ==
    /\ InLoop("split_order_list_text")
    /\ ~(release_title = "Miscellaneous Order" /\ Len(page_texts) = 1)
    /\ LET segment == page_texts[page_i] IN
       /\ splitlines(segment) # <<>>
       /\ IF EndsWithPageNumber(segment)
          THEN /\ order_text' = order_text \o CropPageNumber(segment)
               /\ full_text' = full_text \o CropPageNumber(segment)
               /\ placed' = Append(placed, "orders")
               /\ UNCHANGED <<opinion_text, first_op_page>>
          ELSE LET body == JoinLines(DropLines(splitlines(segment), 3))
                   seg == IF first_op_page THEN <<"\n">> \o body ELSE body
               IN /\ opinion_text' = opinion_text \o seg
                  /\ full_text' = full_text \o seg
                  /\ first_op_page' = FALSE
                  /\ placed' = Append(placed, "opinions")
                  /\ order_text' = order_text
    /\ page_i' = page_i + 1
    /\ UNCHANGED <<seg_impl, release_title, page_texts, seg_pc, notSegmentVars>>

\* segment.splitlines()[-1] on a page without any line: IndexError.
SegmentIndexError ==
    /\ seg_pc = "loop"
    /\ page_i <= Len(page_texts)
    /\ ReadsLastLine
    /\ ~(seg_impl = "split_order_list_text"
            /\ release_title = "Miscellaneous Order" /\ Len(page_texts) = 1)
    /\ splitlines(page_texts[page_i]) = <<>>
    /\ seg_pc' = "IndexError"
    /\ UNCHANGED <<seg_impl, release_title, page_texts, page_i, order_text,
                   opinion_text, full_text, first_op_page, placed,
                   notSegmentVars>>

\* OpinionParserStrategy.parse: one pass of the loop; retv is opinion_text.
OpinionParsePage ==
    /\ InLoop("OpinionParserStrategy")
    /\ LET lines == splitlines(page_texts[page_i]) IN
       IF Len(lines) > 0
       THEN LET header_end_idx == IF isspace(lines[1]) THEN 2 ELSE 3 IN
            /\ opinion_text' = opinion_text \o <<"\n">>
                                   \o JoinLines(DropLines(lines, header_end_idx))
            /\ placed' = Append(placed, "opinions")
       ELSE /\ opinion_text' = opinion_text
            /\ placed' = Append(placed, "nowhere")
    /\ page_i' = page_i + 1
    /\ UNCHANGED <<seg_impl, release_title, page_texts, order_text, full_text,
                   first_op_page, seg_pc, notSegmentVars>>

\* The loop is over: the segmenter returns, OpinionParserStrategy.parse
\* raises ValueError when it has no text.
SegmentReturn ==
    /\ seg_pc = "loop"
    /\ page_i > Len(page_texts)
    /\ seg_pc' = IF seg_impl = "OpinionParserStrategy" /\ opinion_text = <<>>
                 THEN "ValueError" ELSE "done"
    /\ UNCHANGED <<seg_impl, release_title, page_texts, page_i, order_text,
                   opinion_text, full_text, first_op_page, placed,
                   notSegmentVars>>

NextSegment ==
    \/ OrderListParsePage
    \/ SplitOrderListMisc
    \/ SplitOrderListPage
    \/ SegmentIndexError
    \/ OpinionParsePage
    \/ SegmentReturn

(***************************************************************************)
(* Opinion splitting: SlipOpinion.set_documents and                        *)
(* OpinionRelatingToOrder.set_documents (release.py),                      *)
(* OpinionList.get_sections (document_list.py).                            *)
(*                                                                         *)
(* "HDR" is 'SUPREME COURT OF THE UNITED STATES' with one blank between    *)
(* its words, "HDR_NL" the same words with a line break among them.        *)
(***************************************************************************)

\* The pattern of each splitter: what a header is, and what must follow the
\* header of the last chunk ('\s+', ' ', nothing more).
SplitPatterns ==
    [SlipOpinion |->
        [hdr |-> <<W({"HDR", "HDR_NL"})>>, tail |-> <<WS>>],
     OpinionRelatingToOrder |->
        [hdr |-> <<W({"HDR"})>>, tail |-> <<W({" "})>>],
     OpinionList |->
        [hdr |-> <<W({"HDR"}), W({" ", "\n"}), W({" ", "\n"})>>, tail |-> <<>>]]

RECURSIVE SplitAtHeaders(_, _, _)
\* re.findall / re.finditer of the pattern from index i on: each match runs
\* from a header up to the next header, or, when no header follows, to the
\* end of the text provided the tail follows the header.
SplitAtHeaders(text, i, p) ==
    LET s == FindFrom(text, i, <<p.hdr>>) IN
    IF s = 0 THEN <<>>
    ELSE LET h == MatchElems(text, s, p.hdr, 1)
             n == FindFrom(text, h, <<p.hdr>>)
         IN IF n # 0
            THEN <<SubSeq(text, s, n - 1)>> \o SplitAtHeaders(text, n, p)
            ELSE IF MatchElems(text, h, p.tail, 1) # 0
                 THEN <<SubSeq(text, s, Len(text))>>
                 ELSE SplitAtHeaders(text, s + 1, p)

\* The pieces the opinion texts are made of.
SplitPieces == {
    <<"HDR">>, <<"HDR", " ">>, <<"HDR", " ", "\n">>, <<"HDR_NL", "\n">>,
    <<"x">>, <<"\n">> }

IdleSplit ==
    /\ split_impl = "none"
    /\ opinions_text = <<>>
    /\ no_syllabus = FALSE
    /\ documents = <<>>
    /\ split_pc = "idle"

\* A release whose text is set and whose documents are not.  no_syllabus is
\* is_per_curiam or is_decree.
InitSplit ==
    /\ split_impl \in DOMAIN SplitPatterns
    /\ opinions_text \in {Flatten(ps) : ps \in SeqsUpTo(SplitPieces, MaxSplitPieces)}
    /\ no_syllabus \in IF split_impl = "OpinionRelatingToOrder" THEN {TRUE} ELSE BOOLEAN
    /\ documents = <<>>
    /\ split_pc = "start"

\* set_documents / get_sections: one document per chunk, the first one the
\* Syllabus unless the release is per curiam or a decree.
SetDocuments ==
    /\ split_pc = "start"
    /\ LET doc_texts == SplitAtHeaders(opinions_text, 1, SplitPatterns[split_impl])
       IN /\ ~(split_impl = "SlipOpinion" /\ ~no_syllabus /\ doc_texts = <<>>)
          /\ documents' = [i \in DOMAIN doc_texts |->
                [kind |-> IF i = 1 /\ ~no_syllabus THEN "Syllabus" ELSE "Opinion",
                 text |-> doc_texts[i]]]
    /\ split_pc' = "done"
    /\ UNCHANGED <<split_impl, opinions_text, no_syllabus, notSplitVars>>

\* SlipOpinion.set_documents: doc_texts[0] of an empty list.
SetDocumentsIndexError ==
    /\ split_pc = "start"
    /\ split_impl = "SlipOpinion"
    /\ ~no_syllabus
    /\ SplitAtHeaders(opinions_text, 1, SplitPatterns[split_impl]) = <<>>
    /\ split_pc' = "IndexError"
    /\ UNCHANGED <<split_impl, opinions_text, no_syllabus, documents, notSplitVars>>

NextSplit == SetDocuments \/ SetDocumentsIndexError

(***************************************************************************)
(* DispositionExtractor: get_disposition_type (helpers.py) and the         *)
(* Disposition enumeration (_enums.py).                                    *)
(***************************************************************************)

\* The members of Disposition in their order: d[i] is Disposition[i + 1].
Disposition == <<
    "AFFIRMED", "AFFIRMED_IN_PART", "DISMISSED",
    "DISMISSED_AS_IMPROVIDENTLY_GRANTED", "DISMISSED_FOR_WANT_OF_JURISDICTION",
    "REMANDED", "REMANDED_IN_PART", "REVERSED", "REVERSED_IN_PART",
    "VACATED", "VACATED_IN_PART", "GRANTED" >>

InPart == <<WS, W({"IN"}), WS, W({"PART"})>>
AsImprovidentlyGranted ==
    <<WS, W({"as"}), WS, W({"improvidently"}), WS, W({"granted"})>>
ForWantOfJurisdiction ==
    <<WS, W({"for"}), WS, W({"want"}), WS, W({"of"}), WS, W({"jurisdiction"})>>

\* The alternatives of the pattern p in their order.  pat is what the
\* alternative consumes, unless its negative lookahead, group the number of
\* its capturing group (0: the alternative is not in parentheses), and
\* granted marks the alternative that goes on with '[^.!?]+granted\.'.
\* "application" stands for 'application' or 'applications', "stay" for
\* 'stay' or 'stays'.
DispositionAlternatives == <<
    [pat |-> <<W({"AFFIRMED"})>>, unless |-> {InPart}, group |-> 1, granted |-> FALSE],
    [pat |-> <<W({"AFFIRMED"})>> \o InPart, unless |-> {}, group |-> 2, granted |-> FALSE],
    [pat |-> <<W({"DISMISSED"})>>, unless |-> {InPart, AsImprovidentlyGranted},
     group |-> 0, granted |-> FALSE],
    [pat |-> <<W({"DISMISSED"})>> \o InPart, unless |-> {}, group |-> 3, granted |-> FALSE],
    [pat |-> <<W({"DISMISSED"})>> \o AsImprovidentlyGranted, unless |-> {},
     group |-> 4, granted |-> FALSE],
    [pat |-> <<W({"DISMISSED"})>> \o ForWantOfJurisdiction, unless |-> {},
     group |-> 5, granted |-> FALSE],
    [pat |-> <<W({"REMANDED"})>>, unless |-> {InPart}, group |-> 6, granted |-> FALSE],
    [pat |-> <<W({"REMANDED"})>> \o InPart, unless |-> {}, group |-> 7, granted |-> FALSE],
    [pat |-> <<W({"REVERSED"})>>, unless |-> {InPart}, group |-> 8, granted |-> FALSE],
    [pat |-> <<W({"REVERSED"})>> \o InPart, unless |-> {}, group |-> 9, granted |-> FALSE],
    [pat |-> <<W({"VACATED"})>>, unless |-> {InPart}, group |-> 10, granted |-> FALSE],
    [pat |-> <<W({"VACATED"})>> \o InPart, unless |-> {}, group |-> 11, granted |-> FALSE],
    [pat |-> <<W({"application"}), WS, W({"for"}), WS, W({"stay"})>>, unless |-> {},
     group |-> 12, granted |-> TRUE] >>

\* '[^.!?]+granted\.' from index e: the index after it, or 0.  The run of
\* [^.!?] cannot pass a full stop, so 'granted.' ends at the first '.', '!'
\* or '?' at or after e, and at least one token stands before 'granted'.
GrantedEnd(text, e) ==
    LET d == FindFrom(text, e, <<<<W({".", "!", "?"})>>>>)
    IN IF d > e + 1 /\ text[d] = "." /\ text[d - 1] = "granted" THEN d + 1 ELSE 0

\* Alternative a matched at index i: the index after the match, or 0.
MatchAlternative(text, i, a) ==
    LET e == MatchElems(text, i, a.pat, 1)
    IN IF e = 0 THEN 0
       ELSE IF \E u \in a.unless : MatchElems(text, e, u, 1) # 0 THEN 0
       ELSE IF a.granted THEN GrantedEnd(text, e)
       ELSE e

RECURSIVE FirstAlternative(_, _, _, _)
\* The first alternative from number k on that matches at index i, or 0.
FirstAlternative(text, i, alts, k) ==
    IF k > Len(alts) THEN 0
    ELSE IF MatchAlternative(text, i, alts[k]) # 0 THEN k
    ELSE FirstAlternative(text, i, alts, k + 1)

RECURSIVE DispositionMatches(_, _, _)
\* re.finditer(p, string) from index i on, and for every match the names
\* appended for its non-empty groups: [at, names].
DispositionMatches(text, i, alts) ==
    IF i > Len(text) THEN <<>>
    ELSE LET k == FirstAlternative(text, i, alts, 1) IN
         IF k = 0 THEN DispositionMatches(text, i + 1, alts)
         ELSE <<[at |-> i,
                 names |-> IF alts[k].group = 0 THEN <<>>
                           ELSE <<Disposition[alts[k].group]>>]>>
              \o DispositionMatches(text, MatchAlternative(text, i, alts[k]), alts)

\* get_disposition_type(string): retv.
get_disposition_type(string) ==
    Flatten([m \in DOMAIN DispositionMatches(string, 1, DispositionAlternatives) |->
                DispositionMatches(string, 1, DispositionAlternatives)[m].names])

\* The pieces the disposition texts are made of.
DispositionPieces == {
    <<"AFFIRMED">>, <<"DISMISSED">>, <<"REMANDED">>, <<"REVERSED">>, <<"VACATED">>,
    <<" ", "IN", " ", "PART">>,
    <<" ", "as", " ", "improvidently", " ", "granted">>,
    <<" ", "for", " ", "want", " ", "of", " ", "jurisdiction">>,
    <<"application", " ", "for", " ", "stay">>,
    <<" ", "granted", ".">>,
    <<",", " ">> }

IdleDisposition ==
    /\ disposition_text = <<>>
    /\ disp_matches = <<>>
    /\ disp_retv = <<>>
    /\ disp_pc = "idle"

InitDisposition ==
    /\ disposition_text \in
          {Flatten(ps) : ps \in SeqsUpTo(DispositionPieces, MaxDispositionPieces)}
    /\ disp_matches = <<>>
    /\ disp_retv = <<>>
    /\ disp_pc = "start"

\* get_disposition_type(disposition_text)
GetDispositionType ==
    /\ disp_pc = "start"
    /\ disp_matches' = DispositionMatches(disposition_text, 1, DispositionAlternatives)
    /\ disp_retv' = get_disposition_type(disposition_text)
    /\ disp_pc' = "done"
    /\ UNCHANGED <<disposition_text, notDispositionVars>>

NextDisposition == GetDispositionType

(***************************************************************************)
(* Recusals: Opinion.__init__, Opinion.get_attribution_sentence and        *)
(* OpinionDocument.set_recusals (release.py).                              *)
(*                                                                         *)
(* "2022]" is the end of a bracketed date, '2022]' after a character that  *)
(* is no '['.  The title tokens ", J.," and ", JJ.," hold a full stop.     *)
(***************************************************************************)
JTitles == {", J.,", ", JJ.,"}

\* The characters that '[^.!?\]\[]' refuses, as the tokens that hold one.
SentenceStops == {".", "!", "?", "[", "]", "2022]"} \cup JTitles

\* The tokens of one character outside SentenceStops.
OneCharToks == {" ", "\t", "\n", ",", "-"}

\* Opinion.get_attribution_sentence as the span [from, to] of the text it
\* returns; to < from is ''.  The first pattern takes what follows the year
\* up to the first full stop, through one 'J.' on the way, and wants two
\* characters at least before the stop.  Without a match the first of
\* 'PER CURIAM', 'DECREE', 'ORDER AND JUDGMENT' is returned.  The last
\* patterns want a year that no ']' follows: the texts here have none, the
\* IndexError is raised again and the finally clause returns ''.
get_attribution_sentence(text) ==
    LET y == FindFrom(text, 1, << <<W({"2022]"})>> >>)
        d1 == IF y = 0 THEN 0 ELSE FindFrom(text, y + 1, << <<W(SentenceStops)>> >>)
        d == IF d1 # 0 /\ text[d1] \in JTitles
             THEN FindFrom(text, d1 + 1, << <<W(SentenceStops)>> >>)
             ELSE d1
        enough == d - y > 2 \/ (d - y = 2 /\ text[y + 1] \notin OneCharToks)
        literal == << <<W({"PER"}), WS, W({"CURIAM"})>>, <<W({"DECREE"})>>,
                      <<W({"ORDER"}), WS, W({"AND"}), WS, W({"JUDGMENT"})>> >>
        s == FindFrom(text, 1, literal)
    IN  IF d # 0 /\ text[d] = "." /\ enough THEN [from |-> y + 1, to |-> d]
        ELSE IF s # 0 THEN [from |-> s, to |-> MatchAnyAt(text, s, literal, 1) - 1]
        ELSE [from |-> 1, to |-> 0]

RECURSIVE SplitTitles(_)
\* The same text with every title token cut after its full stop.
SplitTitles(text) ==
    IF text = <<>> THEN <<>>
    ELSE (IF Head(text) = ", J.," THEN <<", J.", ",">>
          ELSE IF Head(text) = ", JJ.," THEN <<", JJ.", ",">>
          ELSE <<Head(text)>>) \o SplitTitles(Tail(text))

\* '(?<=\.)[^.!?]+\s+took\s+no\s+part\s.+$' matches from index i of the cut
\* text: a full stop stands before i, and a run without '.', '!', '?' of at
\* least one token leads to white space and 'took no part', white space and
\* one token more.
RecusalsAt(text, i) ==
    /\ i > 1
    /\ text[i - 1] \in {".", ", J.", ", JJ."}
    /\ \E t \in (i + 2)..Len(text) :
        /\ \A k \in i..(t - 1) : text[k] \notin {".", "!", "?", ", J.", ", JJ."}
        /\ text[t - 1] \in {" ", "\t", "\n"}
        /\ LET e == MatchElems(text, t, <<W({"took"}), WS, W({"no"}), WS,
                                          W({"part"}), W({" ", "\t", "\n"})>>, 1)
           IN e # 0 /\ e <= Len(text)

\* OpinionDocument.set_recusals on the attribution sentence: the value of
\* self.recusals afterwards, or the error get_justices_from_sent raises.
set_recusals(sentence) ==
    LET text == SplitTitles(sentence)
        starts == {i \in DOMAIN text : RecusalsAt(text, i)}
        first == CHOOSE i \in starts : \A j \in starts : i <= j
        r == get_justices_from_sent(SubSeq(text, first, Len(text)))
    IN  IF starts = {} THEN [error |-> "", recusals |-> None]
        ELSE [error |-> r.error, recusals |-> r.tags]

\* The pieces the opinion texts are made of.
OpinionPieces == {
    <<"2022]">>,
    <<"\n", "JUSTICE", " ", "KAGAN", " ", "delivered", " ", "the", " ",
      "opinion", ".">>,
    <<" ", "JUSTICE", " ", "BARRETT", " ", "took", " ", "no", " ", "part",
      " ", "in", " ", "it", ".">>,
    <<"\n", "THOMAS", ", J.,", " ", "dissenting">>,
    <<" ", "JACKSON">>,
    <<"\n", "PER", " ", "CURIAM">>,
    <<".">> }

IdleRecusal ==
    /\ rec_text = <<>>
    /\ rec_sentence = <<>>
    /\ recusals = None
    /\ rec_pc = "idle"

\* Opinion.__init__ after super().__init__ and self.recusals = None.  The
\* texts hold one title token at most, so that no sentence ends inside one.
InitRecusal ==
    /\ rec_text \in
          {t \in {Flatten(ps) : ps \in SeqsUpTo(OpinionPieces, MaxOpinionPieces)} :
              Cardinality({i \in DOMAIN t : t[i] \in JTitles}) <= 1}
    /\ rec_sentence = <<>>
    /\ recusals = None
    /\ rec_pc = "new"

\* self._attribution_sentence = self.get_attribution_sentence();
\* self.type = self.get_type(self._attribution_sentence)
OpinionGetSentence ==
    /\ rec_pc = "new"
    /\ LET span == get_attribution_sentence(rec_text)
           sentence == SubSeq(rec_text, span.from, span.to)
       IN /\ rec_sentence' = sentence
          /\ rec_pc' = IF get_type(sentence) = "NotImplementedError"
                       THEN "NotImplementedError" ELSE "typed"
    /\ UNCHANGED <<rec_text, recusals, notRecusalVars>>

\* self.set_recusals()
OpinionSetRecusals ==
    /\ rec_pc = "typed"
    /\ LET r == set_recusals(rec_sentence) IN
        IF r.error # ""
        THEN rec_pc' = r.error /\ recusals' = recusals
        ELSE rec_pc' = "recused" /\ recusals' = r.recusals
    /\ UNCHANGED <<rec_text, rec_sentence, notRecusalVars>>

\* self.assign_authorship()
OpinionSetAuthor ==
    /\ rec_pc = "recused"
    /\ LET r == set_authorship(remove_justice_titles(remove_hyphenation(rec_sentence)))
       IN rec_pc' = IF r.error # "" THEN r.error ELSE "done"
    /\ UNCHANGED <<rec_text, rec_sentence, recusals, notRecusalVars>>

NextRecusal == OpinionGetSentence \/ OpinionSetRecusals \/ OpinionSetAuthor

(***************************************************************************)
(* RuleOrderExtractor: RuleOrder.get_rules and set_rule_content            *)
(* (release.py), the same code as RulesOrder in order.py.                  *)
(*                                                                         *)
(* A number token such as "7." is a dotted number with its last full stop. *)
(***************************************************************************)
RuleNumbers == {"7.", "8.", "9."}

\* 'Rule\s+[\d\.]+\.', the start of both patterns.
RuleHeading == <<W({"Rule"}), WS, W(RuleNumbers)>>

RECURSIVE BoldRules(_, _)
\* get_rules: re.finditer('Rule\s+([\d\.]+\.)(.+?)(?=Rule|$)') over the bold
\* text from index i on, and the Rule made of every match.  The title has
\* one character at least and ends before the next 'Rule' or at the end;
\* its white space is normalised and its asterisks ('\s\*') are removed.
BoldRules(text, i) ==
    LET s == FindFrom(text, i, <<RuleHeading>>) IN
    IF s = 0 THEN <<>>
    ELSE LET e == MatchElems(text, s, RuleHeading, 1)
             n == FindFrom(text, e + 1, << <<W({"Rule"})>> >>)
             stop == IF n # 0 THEN n ELSE Len(text) + 1
         IN IF e > Len(text) THEN BoldRules(text, s + 1)
            ELSE <<[number |-> text[e - 1],
                    title |-> SubAll(remove_extra_whitespace(SubSeq(text, e, stop - 1)),
                                     1, << <<W({" "}), W({"*"})>> >>, <<>>),
                    contents |-> None]>>
                 \o BoldRules(text, stop)

RECURSIVE LineInitialRule(_, _, _)
\* The first index at or after i where a line begins with 'Rule' (heading:
\* with 'Rule\s+[\d\.]+\.' and one character more), or 0.
LineInitialRule(text, i, heading) ==
    IF i > Len(text) THEN 0
    ELSE IF /\ i = 1 \/ text[i - 1] = "\n"
            /\ text[i] = "Rule"
            /\ heading => LET e == MatchElems(text, i, RuleHeading, 1)
                          IN e # 0 /\ e <= Len(text)
         THEN i
         ELSE LineInitialRule(text, i + 1, heading)

\* The match of '(?ms)^Rule\s+[\d\.]+\.(.+?)(?=^Rule|\Z)' that
\* re.finditer yields next from index i on: [found, from, to, number].
NextContent(text, i) ==
    LET s == LineInitialRule(text, i, TRUE)
        n == LineInitialRule(text, MatchElems(text, s, RuleHeading, 1) + 1, FALSE)
    IN  IF s = 0 THEN [found |-> FALSE, from |-> 0, to |-> 0, number |-> ""]
        ELSE [found |-> TRUE, from |-> s,
              to |-> IF n # 0 THEN n - 1 ELSE Len(text),
              number |-> text[MatchElems(text, s, RuleHeading, 1) - 1]]

\* The pieces of the bold text and of the plain text.
BoldPieces == {
    <<"Rule", " ", "7.", " ", "Scope">>,
    <<"Rule", " ", "8.", "Filing">>,
    <<"Rule", " ", "9.">>,
    <<" ", "*">> }
PlainPieces == {
    <<"Rule", " ", "7.", " ", "Scope", "\n">>,
    <<"Rule", " ", "8.", "\n", "Filing", "\n">>,
    <<"Rule", " ", "9.", "\n">>,
    <<"see", " ", "Rule", " ", "7.", "\n">> }

IdleRules ==
    /\ bolded_text = <<>>
    /\ rule_text = <<>>
    /\ rules = <<>>
    /\ rule_i = 0
    /\ rule_from = 0
    /\ rule_pc = "idle"

\* RuleOrder.__init__ after self.rules = [] and get_type.
InitRules ==
    /\ bolded_text \in {Flatten(ps) : ps \in SeqsUpTo(BoldPieces, MaxRuleHeadings)}
    /\ rule_text \in {Flatten(ps) : ps \in SeqsUpTo(PlainPieces, MaxRuleLines)}
    /\ rules = <<>>
    /\ rule_i = 0
    /\ rule_from = 1
    /\ rule_pc = "get_rules"

\* get_rules up to its call of set_rule_content
GetRules ==
    /\ rule_pc = "get_rules"
    /\ rules' = BoldRules(bolded_text, 1)
    /\ rule_pc' = "set_rule_content"
    /\ UNCHANGED <<bolded_text, rule_text, rule_i, rule_from, notRulesVars>>

\* set_rule_content, one turn of its loop: self.rules[i].contents = m.group()
SetRuleContent ==
    /\ rule_pc = "set_rule_content"
    /\ LET m == NextContent(rule_text, rule_from) IN
        /\ m.found
        /\ rule_i < Len(rules)
        /\ rules' = [rules EXCEPT ![rule_i + 1].contents = SubSeq(rule_text, m.from, m.to)]
        /\ rule_i' = rule_i + 1
        /\ rule_from' = m.to + 1
    /\ UNCHANGED <<bolded_text, rule_text, rule_pc, notRulesVars>>

\* set_rule_content: self.rules[i] beyond the end of the list
SetRuleContentIndexError ==
    /\ rule_pc = "set_rule_content"
    /\ NextContent(rule_text, rule_from).found
    /\ rule_i >= Len(rules)
    /\ rule_pc' = "IndexError"
    /\ UNCHANGED <<bolded_text, rule_text, rules, rule_i, rule_from, notRulesVars>>

\* set_rule_content: no further match
SetRuleContentReturn ==
    /\ rule_pc = "set_rule_content"
    /\ ~NextContent(rule_text, rule_from).found
    /\ rule_pc' = "done"
    /\ UNCHANGED <<bolded_text, rule_text, rules, rule_i, rule_from, notRulesVars>>

NextRules ==
    \/ GetRules
    \/ SetRuleContent
    \/ SetRuleContentIndexError
    \/ SetRuleContentReturn

(***************************************************************************)
(* What the three look-ups raise: OrderSectionType.from_string             *)
(* (_enums.py), Parser.set_document_type (parser.py) and                   *)
(* JusticeTag.from_string (justice.py), next to Opinion.get_type.          *)
(***************************************************************************)

\* The outcome of a call: the value returned, or the exception raised as
\* its class and its argument.
Returned(value) == [returned |-> value, raised |-> "", message |-> ""]
Raised(class, message) == [returned |-> "", raised |-> class, message |-> message]

\* OrderSectionType.from_string(label): else: raise NotImplementedError
section_from_string(label) ==
    IF from_string(label) = "unknown" THEN Raised("NotImplementedError", "")
    ELSE Returned(from_string(label))

\* Parser.set_document_type
set_document_type(m) ==
    IF m.stream = "ORDERS"
    THEN IF m.title.text = "Order List" THEN Returned("ORDER_LIST")
         ELSE IF m.title.text = "Miscellaneous Order"
              THEN IF m.first_line = NoLine THEN Raised("IndexError", "list index out of range")
                   ELSE IF is_stay_order(m.title, m.page_count, m.first_line)
                        THEN Returned("STAY_ORDER")
                        ELSE Returned("ORDER_LIST")
         ELSE IF m.title.rules_prefix THEN Returned("RULES_ORDER")
         ELSE Raised("NotImplementedError", "")
    ELSE IF m.stream = "SLIP_OPINIONS" THEN Returned("SLIP_OPINION")
    ELSE IF m.stream = "OPINIONS_RELATING_TO_ORDERS"
         THEN Returned("OPINION_RELATING_TO_ORDERS")
    ELSE Raised("NotImplementedError", "")

\* JusticeTag.from_string(s):
\* raise NotImplementedError(f'String {s} not recognized as a Justice.')
justice_from_string(s) ==
    IF JusticeTag_from_string(s) = "NotImplementedError"
    THEN Raised("NotImplementedError", "String " \o s \o " not recognized as a Justice.")
    ELSE Returned(JusticeTag_from_string(s))

\* Opinion.get_type(sentence): raise NotImplementedError after its table
opinion_get_type(sentence) ==
    IF get_type(sentence) = "NotImplementedError" THEN Raised("NotImplementedError", "")
    ELSE Returned(get_type(sentence))

\* The arguments of the calls.
LabelWords == {"CERTIORARI", "GRANTED", "DENIED", "MANDAMUS", "DISMISSED"}
Labels == SeqsUpTo(LabelWords, MaxLabelWords)
Msgs == {m \in [title : Titles, stream : Streams, page_count : 0..MaxPageCount,
                first_line : FirstLines \cup {NoLine}] :
            m.page_count = 0 => m.first_line = NoLine}
JusticeNames ==
    LastNameKeys \cup {"JACKSON", "STEVENS", "CHIEF JUSTICE", "JUSTICE KAGAN",
                       "JUSTICE JACKSON", "PER CURIAM", "Justice Kagan"}
TypeSentences == {<<"PER", " ", "CURIAM">>, <<"PER", "\n", "CURIAM">>,
                  <<"JUSTICE", " ", "KAGAN", " ", "dissenting">>, <<>>}
NoMsg == [title |-> [text |-> "", upper |-> "", rules_prefix |-> FALSE],
          page_count |-> 0, first_line |-> NoLine, stream |-> ""]

IdleLookup ==
    /\ err_op = "none"
    /\ err_label = <<>>
    /\ err_msg = NoMsg
    /\ err_name = ""
    /\ err_sentence = <<>>
    /\ err_outcome = Returned("")
    /\ err_pc = "idle"

\* One call of one of the four operations, not yet made.
InitLookup ==
    /\ err_op \in {"OrderSectionType.from_string", "Parser.set_document_type",
                   "JusticeTag.from_string", "Opinion.get_type"}
    /\ err_label \in IF err_op = "OrderSectionType.from_string" THEN Labels ELSE {<<>>}
    /\ err_msg \in IF err_op = "Parser.set_document_type" THEN Msgs ELSE {NoMsg}
    /\ err_name \in IF err_op = "JusticeTag.from_string" THEN JusticeNames ELSE {""}
    /\ err_sentence \in IF err_op = "Opinion.get_type" THEN TypeSentences ELSE {<<>>}
    /\ err_outcome = Returned("")
    /\ err_pc = "call"

\* return or raise
LookupOutcome(outcome) ==
    /\ err_outcome' = outcome
    /\ err_pc' = IF outcome.raised # "" THEN "raised" ELSE "returned"
    /\ UNCHANGED <<err_op, err_label, err_msg, err_name, err_sentence, notLookupVars>>

CallSectionFromString ==
    /\ err_pc = "call"
    /\ err_op = "OrderSectionType.from_string"
    /\ LookupOutcome(section_from_string(err_label))

CallSetDocumentType ==
    /\ err_pc = "call"
    /\ err_op = "Parser.set_document_type"
    /\ LookupOutcome(set_document_type(err_msg))

CallJusticeFromString ==
    /\ err_pc = "call"
    /\ err_op = "JusticeTag.from_string"
    /\ LookupOutcome(justice_from_string(err_name))

CallGetType ==
    /\ err_pc = "call"
    /\ err_op = "Opinion.get_type"
    /\ LookupOutcome(opinion_get_type(err_sentence))

NextLookup ==
    \/ CallSectionFromString
    \/ CallSetDocumentType
    \/ CallJusticeFromString
    \/ CallGetType

(***************************************************************************)
(* CaseExtractor: OrderSection.set_cases and get_cases_text (section.py).  *)
(*                                                                         *)
(* A docket token such as "20-37" begins and ends with a digit; "7" is one *)
(* digit; "22O141" is followed by ', ORIG.'.  "V." is the one token with   *)
(* a capital V.                                                            *)
(***************************************************************************)
DocketToks == {"20-37", "20-38", "21-5", "22O141", "7"}
DigitsIn(tok) == IF tok = "7" THEN 1 ELSE IF tok \in DocketToks THEN 2 ELSE 0

\* The index of the line break that ends the line of index i, Len + 1
\* without one: where '$' matches under re.M.
EndOfLine(text, i) == SkipMany(text, i, {text[k] : k \in DOMAIN text} \ {"\n"})

\* Group 2, '(.*?V.*?$|IN\s+RE.*?$)', from index g: the index after it, or 0.
CaseNameEnd(text, g) ==
    LET re == MatchElems(text, g, <<W({"IN"}), WS, W({"RE"})>>, 1) IN
    IF g > Len(text) THEN 0
    ELSE IF \E k \in g..(EndOfLine(text, g) - 1) : text[k] = "V."
         THEN EndOfLine(text, g)
    ELSE IF re # 0 THEN EndOfLine(text, re)
    ELSE 0

\* Group 1 may end with the token at index e when it began at index s:
\* '\d+.*?\d' wants two digits and a digit at its end, '\d+.*?ORIG\.' the
\* token 'ORIG.' after the digits, both within one line.
CaseNumberEnds(text, s, e) ==
    /\ e < EndOfLine(text, s)
    /\ \/ DigitsIn(text[e]) > 0 /\ (e > s \/ DigitsIn(text[s]) > 1)
       \/ text[e] = "ORIG." /\ e > s

\* The match of the pattern that begins at index s: [found, e, g, to] with
\* the number in s..e, the name in g..to-1.  Of the ends of group 1 the
\* first one that a digit ends is taken before the first 'ORIG.'; '\s+'
\* takes all the white space there is.
CaseAt(text, s) ==
    LET Fits(e) == /\ CaseNumberEnds(text, s, e)
                   /\ e < Len(text)
                   /\ text[e + 1] \in {" ", "\t", "\n"}
                   /\ CaseNameEnd(text, SkipMany(text, e + 1, {" ", "\t", "\n"})) # 0
        digit == {e \in s..Len(text) : Fits(e) /\ text[e] # "ORIG."}
        orig == {e \in s..Len(text) : Fits(e) /\ text[e] = "ORIG."}
        ends == IF digit # {} THEN digit ELSE orig
        e == CHOOSE x \in ends : \A y \in ends : x <= y
        g == SkipMany(text, e + 1, {" ", "\t", "\n"})
    IN  IF DigitsIn(text[s]) = 0 \/ ends = {}
        THEN [found |-> FALSE, e |-> 0, g |-> 0, to |-> 0]
        ELSE [found |-> TRUE, e |-> e, g |-> g, to |-> CaseNameEnd(text, g)]

RECURSIVE set_cases(_, _)
\* set_cases: re.findall from index i on, and the Case of every match, its
\* name through remove_extra_whitespace.
set_cases(text, i) ==
    IF i > Len(text) THEN <<>>
    ELSE IF ~CaseAt(text, i).found THEN set_cases(text, i + 1)
    ELSE <<[number |-> SubSeq(text, i, CaseAt(text, i).e),
            name |-> remove_extra_whitespace(
                        SubSeq(text, CaseAt(text, i).g, CaseAt(text, i).to - 1))]>>
         \o set_cases(text, CaseAt(text, i).to)

\* get_cases_text without its first assignment: the listing of the cases,
\* empty for no case.
get_cases_text_listing(cs) ==
    [num_cases |-> Len(cs),
     cases_text |-> [k \in DOMAIN cs |-> cs[k].number \o <<"  ">> \o cs[k].name]]

\* get_cases_text: (num_cases, cases_text); '  '.join([number, name]) has
\* no white space at its ends, so strip() keeps it.
get_cases_text(cs) ==
    IF Len(cs) > 0
    THEN [num_cases |-> Len(cs),
          cases_text |-> [k \in DOMAIN cs |->
                            cs[k].number \o <<"  ">> \o cs[k].name]]
    ELSE [num_cases |-> 0, cases_text |-> << <<"No cases.">> >>]

\* The lines the section texts are made of.
SectionLines == {
    <<"20-37", " ", "BECERRA", " ", "V.", " ", "GRESHAM", "\n">>,
    <<"21-5", " ", " ", "IN", " ", "RE", " ", "DOE", "\n">>,
    <<"22O141", ",", " ", "ORIG.", " ", "TEXAS", " ", "V.", " ", "OHIO", "\n">>,
    <<"The", " ", "motion", " ", "is", " ", "denied", ".", "\n">>,
    <<"7", " ", "SMITH", " ", "V.", " ", "JONES", "\n">>,
    <<"20-38", " ", ")", "\n">>,
    <<"20-38", "\n">>,
    <<" ", "ARKANSAS", " ", "V.", " ", "GRESHAM">> }

IdleCases ==
    /\ case_text = <<>>
    /\ cases = <<>>
    /\ cases_report = [num_cases |-> 0, cases_text |-> <<>>]
    /\ case_pc = "idle"

\* Section.__init__ before self.set_cases()
InitCases ==
    /\ case_text \in {Flatten(ls) : ls \in SeqsUpTo(SectionLines, MaxSectionLines)}
    /\ cases = <<>>
    /\ cases_report = [num_cases |-> 0, cases_text |-> <<>>]
    /\ case_pc = "new"

\* self.set_cases()
SetCases ==
    /\ case_pc = "new"
    /\ cases' = set_cases(case_text, 1)
    /\ case_pc' = "kept"
    /\ UNCHANGED <<case_text, cases_report, notCasesVars>>

\* self.get_cases_text(), as __str__ and compose_tweet call it
GetCasesText ==
    /\ case_pc = "kept"
    /\ cases_report' = get_cases_text(cases)
    /\ case_pc' = "reported"
    /\ UNCHANGED <<case_text, cases, notCasesVars>>

NextCases == SetCases \/ GetCasesText

(***************************************************************************)
(* The summary string: compose_tweet of the three releases and of the      *)
(* documents of an order release (release.py, section.py), and             *)
(* TwitterPublisher.post_tweet (tweet.py).  Texts are strings, so that the *)
(* length of a summary is the length the code would measure.              *)
(***************************************************************************)
\* text repeated n times
RECURSIVE Rep(_, _)
Rep(s, n) == IF n = 0 THEN "" ELSE s \o Rep(s, n - 1)

\* f'{s :>{5}}': right-aligned in a field of width 5
PadLeft5(s) == Rep(" ", IF Len(s) < 5 THEN 5 - Len(s) ELSE 0) \o s

\* (n > 1 or n == 0)*"s"
Plural(n) == IF n > 1 \/ n = 0 THEN "s" ELSE ""

\* the limit of post_tweet
TweetLimit == 280

\* SlipOpinion.compose_tweet
SlipOpinion_compose_tweet(t, h, sc, u) ==
    "OPINION:\n" \o PadLeft5(t) \o "\n\n" \o "Held: " \o h \o "\n\n"
        \o "(" \o sc \o ")" \o "\n" \o u

\* OrderSection.compose_tweet, on the label and len(self.cases)
OrderSection_compose_tweet(label, num_cases) ==
    "\n" \o label \o ": " \o ToString(num_cases) \o " case" \o Plural(num_cases)

\* OrderList.compose_tweet: ''.join(s.compose_tweet() for s in self.sections)
RECURSIVE OrderList_compose_tweet(_)
OrderList_compose_tweet(secs) ==
    IF secs = <<>> THEN ""
    ELSE OrderSection_compose_tweet(Head(secs)[1], Head(secs)[2])
             \o OrderList_compose_tweet(Tail(secs))

\* RuleOrder.compose_tweet, on str(self.type) and len(self.rules)
RuleOrder_compose_tweet(rules_type, n, u) ==
    "NEW RULES:\n\n" \o rules_type \o "\n" \o ToString(n) \o " rule" \o Plural(n)
        \o "added.\n\n" \o u

\* OrderRelease.compose_tweet around the summary of its document
OrderRelease_compose_tweet(t, d, document_tweet, u) ==
    t \o " (" \o d \o ")\n" \o document_tweet \o "\n\n" \o u

\* OpinionRelatingToOrder.compose_tweet with a first document
OpinionRelatingToOrder_compose_tweet(t, first_doc, u) ==
    "OPINION RELATING TO ORDER:\n\n" \o t \o "\n" \o first_doc[1] \o "\n\n"
        \o "Author: " \o first_doc[2] \o "\n" \o u

\* what the collaborator's message may hold
HoldingSentence == "The judgment of the Court of Appeals is reversed and remanded. "
Holdings == {Rep(HoldingSentence, n) : n \in 0..MaxHoldingSentences}
TweetTitles == {"Doe v. Roe", "21A"}
TweetUrls == {"https://www.supremecourt.gov/opinions/21pdf/21-5_a1b2.pdf", "u"}
TweetScores == {"9-0 by PER_CURIAM", "6-3 by ALITO"}
SectionSummaries ==
    {<<"CERTIORARI DENIED", 0>>, <<"CERTIORARI DENIED", 112>>,
     <<"CERTIORARI -- SUMMARY DISPOSITIONS", 1>>,
     <<"ORDERS IN PENDING CASES", 23>>}
RuleTypeOf == "RulesType.RULES_OF_CIVIL_PROCEDURE"

IdleTweet ==
    /\ tw_type = "None" /\ tw_title = "None" /\ tw_date = "None"
    /\ tw_url = "None" /\ tw_holding = "None" /\ tw_score = "None"
    /\ tw_sections = <<>> /\ tw_rules = 0 /\ tw_documents = <<>>
    /\ tweet = "None" /\ tw_pc = "idle"

\* a release of one of the four document types, constructed
InitTweet ==
    /\ tw_type \in {"SLIP_OPINION", "OPINION_RELATING_TO_ORDERS",
                    "ORDER_LIST", "RULES_ORDER"}
    /\ tw_title \in TweetTitles
    /\ tw_date = "June 24, 2022"
    /\ tw_url \in TweetUrls
    /\ tw_holding \in IF tw_type = "SLIP_OPINION" THEN Holdings ELSE {"None"}
    /\ tw_score \in IF tw_type = "SLIP_OPINION" THEN TweetScores ELSE {"None"}
    /\ tw_sections \in IF tw_type = "ORDER_LIST"
                       THEN SeqsUpTo(SectionSummaries, MaxTweetSections)
                       ELSE {<<>>}
    /\ tw_rules \in IF tw_type = "RULES_ORDER" THEN 0..MaxTweetRules ELSE {0}
    /\ tw_documents \in IF tw_type = "OPINION_RELATING_TO_ORDERS"
                        THEN {<<>>, << <<"DISSENT", "THOMAS">> >>,
                              << <<"STATEMENT", "SOTOMAYOR">> >>}
                        ELSE {<<>>}
    /\ tweet = "None"
    /\ tw_pc = "release"

\* SlipOpinion.compose_tweet()
SlipOpinionComposeTweet ==
    /\ tw_pc = "release"
    /\ tw_type = "SLIP_OPINION"
    /\ tweet' = SlipOpinion_compose_tweet(tw_title, tw_holding, tw_score, tw_url)
    /\ tw_pc' = "composed"
    /\ UNCHANGED <<tw_type, tw_title, tw_date, tw_url, tw_holding, tw_score,
                   tw_sections, tw_rules, tw_documents, notTweetVars>>

\* OrderRelease.compose_tweet() with an OrderList document
OrderListComposeTweet ==
    /\ tw_pc = "release"
    /\ tw_type = "ORDER_LIST"
    /\ tweet' = OrderRelease_compose_tweet(
                    tw_title, tw_date, OrderList_compose_tweet(tw_sections), tw_url)
    /\ tw_pc' = "composed"
    /\ UNCHANGED <<tw_type, tw_title, tw_date, tw_url, tw_holding, tw_score,
                   tw_sections, tw_rules, tw_documents, notTweetVars>>

\* OrderRelease.compose_tweet() with a RuleOrder document
RuleOrderComposeTweet ==
    /\ tw_pc = "release"
    /\ tw_type = "RULES_ORDER"
    /\ tweet' = OrderRelease_compose_tweet(
                    tw_title, tw_date,
                    RuleOrder_compose_tweet(RuleTypeOf, tw_rules, tw_url), tw_url)
    /\ tw_pc' = "composed"
    /\ UNCHANGED <<tw_type, tw_title, tw_date, tw_url, tw_holding, tw_score,
                   tw_sections, tw_rules, tw_documents, notTweetVars>>

\* OpinionRelatingToOrder.compose_tweet()
OpinionRelatingToOrderComposeTweet ==
    /\ tw_pc = "release"
    /\ tw_type = "OPINION_RELATING_TO_ORDERS"
    /\ tw_documents # <<>>
    /\ tweet' = OpinionRelatingToOrder_compose_tweet(
                    tw_title, tw_documents[1], tw_url)
    /\ tw_pc' = "composed"
    /\ UNCHANGED <<tw_type, tw_title, tw_date, tw_url, tw_holding, tw_score,
                   tw_sections, tw_rules, tw_documents, notTweetVars>>

\* doc = self.documents[0] of a release without documents
OpinionRelatingToOrderComposeTweetIndexError ==
    /\ tw_pc = "release"
    /\ tw_type = "OPINION_RELATING_TO_ORDERS"
    /\ tw_documents = <<>>
    /\ tw_pc' = "IndexError"
    /\ UNCHANGED <<tw_type, tw_title, tw_date, tw_url, tw_holding, tw_score,
                   tw_sections, tw_rules, tw_documents, tweet, notTweetVars>>

\* TwitterPublisher.post_tweet(text) within the limit
PostTweet ==
    /\ tw_pc = "composed"
    /\ ~(Len(tweet) > TweetLimit)
    /\ tw_pc' = "posted"
    /\ UNCHANGED <<tw_type, tw_title, tw_date, tw_url, tw_holding, tw_score,
                   tw_sections, tw_rules, tw_documents, tweet, notTweetVars>>

\* TwitterPublisher.post_tweet(text): raise ValueError
PostTweetValueError ==
    /\ tw_pc = "composed"
    /\ Len(tweet) > TweetLimit
    /\ tw_pc' = "ValueError"
    /\ UNCHANGED <<tw_type, tw_title, tw_date, tw_url, tw_holding, tw_score,
                   tw_sections, tw_rules, tw_documents, tweet, notTweetVars>>

NextTweet ==
    \/ SlipOpinionComposeTweet
    \/ OrderListComposeTweet
    \/ RuleOrderComposeTweet
    \/ OpinionRelatingToOrderComposeTweet
    \/ OpinionRelatingToOrderComposeTweetIndexError
    \/ PostTweet
    \/ PostTweetValueError

(***************************************************************************)
(* The pollers: ChangeDetector.start_detection                             *)
(* (website_change_detector.py), one thread per stream (daemon.py).  Each  *)
(* action is one step of one thread, so that the threads interleave.       *)
(***************************************************************************)
\* the streams daemon.main builds a detector for
PolledStreams == {"SLIP_OPINIONS", "OPINIONS_RELATING_TO_ORDERS", "ORDERS"}

\* the texts a watched element may have
Contents == {"June 24", "June 27"}

\* set_url / set_watch_element: the page whose element the detector of a
\* stream watches
WatchedOrders(s) == "ORDERS"
Watched(s) == s

\* get_hash: hashlib.sha256(text).hexdigest(), distinct for distinct texts
get_hash(text) == "sha256:" \o text

\* if hash == new_hash: continue / else: call main
AlwaysChanged(h, n) == TRUE
Changed(h, n) == ~(h = n)

\* set_main_args
set_main_args(s) ==
    IF s = "ORDERS" THEN "-o"
    ELSE IF s = "SLIP_OPINIONS" THEN "-s"
    ELSE IF s = "OPINIONS_RELATING_TO_ORDERS" THEN "-r"
    ELSE "NotImplementedError"

\* the parameters of omg_scotus.main.main: def main() -> int
MainParameters == {}

\* main(**kwargs): binding the arguments, then the pipeline
main(kwargs) ==
    IF \E k \in kwargs : k \notin MainParameters THEN "TypeError" ELSE "returned"

IdlePoller ==
    /\ site = <<>> /\ site_changed = <<>> /\ watch_element = <<>>
    /\ hash = <<>> /\ new_hash = <<>> /\ main_calls = <<>>
    /\ pipeline_runs = <<>> /\ poll_context = <<>> /\ poll_pc = <<>>

\* daemon.main: the three detectors built, each from the page as it is, and
\* the three threads started
InitPoller ==
    /\ site \in [PolledStreams -> Contents]
    /\ site_changed = [s \in PolledStreams |-> FALSE]
    /\ watch_element = [s \in PolledStreams |-> site[Watched(s)]]
    /\ hash = [s \in PolledStreams |-> "None"]
    /\ new_hash = [s \in PolledStreams |-> "None"]
    /\ main_calls = [s \in PolledStreams |-> 0]
    /\ pipeline_runs = [s \in PolledStreams |-> 0]
    /\ poll_context = [s \in PolledStreams |-> "None"]
    /\ poll_pc = [s \in PolledStreams |-> "start"]

\* the court publishes on the page of a stream
SiteChange(s) ==
    /\ \E c \in Contents \ {site[s]} : site' = [site EXCEPT ![s] = c]
    /\ site_changed' = [site_changed EXCEPT ![s] = TRUE]
    /\ UNCHANGED <<watch_element, hash, new_hash, main_calls, pipeline_runs,
                   poll_context, poll_pc, notPollerVars>>

\* hash = self.get_hash()
StartDetection(s) ==
    /\ poll_pc[s] = "start"
    /\ hash' = [hash EXCEPT ![s] = get_hash(watch_element[s])]
    /\ poll_pc' = [poll_pc EXCEPT ![s] = "sleep"]
    /\ UNCHANGED <<site, site_changed, watch_element, new_hash, main_calls,
                   pipeline_runs, poll_context, notPollerVars>>

\* time.sleep(...); self.refresh(); new_hash = self.get_hash()
Refresh(s) ==
    /\ poll_pc[s] = "sleep"
    /\ watch_element' = [watch_element EXCEPT ![s] = site[Watched(s)]]
    /\ new_hash' = [new_hash EXCEPT ![s] = get_hash(site[Watched(s)])]
    /\ poll_pc' = [poll_pc EXCEPT ![s] = "refreshed"]
    /\ UNCHANGED <<site, site_changed, hash, main_calls, pipeline_runs,
                   poll_context, notPollerVars>>

\* self.refresh() raises (the request fails, the element is not on the page):
\* except Exception: raise ValueError
RefreshRaises(s) ==
    /\ poll_pc[s] = "sleep"
    /\ poll_context' = [poll_context EXCEPT ![s] = "RequestException"]
    /\ poll_pc' = [poll_pc EXCEPT ![s] = "ValueError"]
    /\ UNCHANGED <<site, site_changed, watch_element, hash, new_hash,
                   main_calls, pipeline_runs, notPollerVars>>

\* if hash == new_hash: continue
Continue(s) ==
    /\ poll_pc[s] = "refreshed"
    /\ ~Changed(hash[s], new_hash[s])
    /\ poll_pc' = [poll_pc EXCEPT ![s] = "sleep"]
    /\ UNCHANGED <<site, site_changed, watch_element, hash, new_hash,
                   main_calls, pipeline_runs, poll_context, notPollerVars>>

\* else: beepy.beep(sound='ready'); main(argv=self.main_args); break
\* and, when the call raises, except Exception: raise ValueError
CallMain(s) ==
    /\ poll_pc[s] = "refreshed"
    /\ Changed(hash[s], new_hash[s])
    /\ set_main_args(s) # "NotImplementedError"
    /\ main_calls' = [main_calls EXCEPT ![s] = @ + 1]
    /\ LET r == main({"argv"})
       IN IF r = "returned"
          THEN /\ pipeline_runs' = [pipeline_runs EXCEPT ![s] = @ + 1]
               /\ poll_pc' = [poll_pc EXCEPT ![s] = "done"]
               /\ UNCHANGED poll_context
          ELSE /\ poll_context' = [poll_context EXCEPT ![s] = r]
               /\ poll_pc' = [poll_pc EXCEPT ![s] = "ValueError"]
               /\ UNCHANGED pipeline_runs
    /\ UNCHANGED <<site, site_changed, watch_element, hash, new_hash,
                   notPollerVars>>

\* a step of the thread of one detector
PollerStep(s) == StartDetection(s) \/ Refresh(s) \/ Continue(s) \/ CallMain(s)

NextPoller ==
    \E s \in PolledStreams :
        \/ SiteChange(s)
        \/ StartDetection(s)
        \/ Refresh(s)
        \/ RefreshRaises(s)
        \/ Continue(s)
        \/ CallMain(s)

(***************************************************************************)
(* get_term_year (helpers.py), on the dates of datetime.date.               *)
(***************************************************************************)
IsLeap(y) == (y % 4 = 0) /\ ((y % 100 # 0) \/ (y % 400 = 0))

DaysInMonth(y, m) ==
    IF m = 2 THEN (IF IsLeap(y) THEN 29 ELSE 28)
    ELSE IF m \in {4, 6, 9, 11} THEN 30 ELSE 31

RECURSIVE DaysBeforeMonth(_, _)
DaysBeforeMonth(y, m) ==
    IF m = 1 THEN 0 ELSE DaysBeforeMonth(y, m - 1) + DaysInMonth(y, m - 1)

\* date.toordinal(): the number of the day, 0001-01-01 being day 1
toordinal(y, m, d) ==
    (y - 1) * 365 + ((y - 1) \div 4) - ((y - 1) \div 100) + ((y - 1) \div 400)
        + DaysBeforeMonth(y, m) + d

\* date.weekday(): Monday is 0
weekday(y, m, d) == (toordinal(y, m, d) + 6) % 7

\* str(n), as the sequence of its digits
RECURSIVE str(_)
str(n) == IF n < 10 THEN <<n>> ELSE str(n \div 10) \o <<n % 10>>

\* get_first_monday_in_october without the wrap of a negative offset
get_first_monday_unwrapped(y) == toordinal(y, 10, 1) - weekday(y, 10, 1)

\* get_first_monday_in_october(year), as the ordinal of the date
get_first_monday_in_october(y) ==
    LET offset == 0 - weekday(y, 10, 1)
    IN toordinal(y, 10, 1) + (IF offset < 0 THEN offset + 7 ELSE offset)

\* get_term_year(dt)
get_term_year(dt) ==
    LET t0 == get_first_monday_in_october(dt[1] - 1)
        t1 == get_first_monday_in_october(dt[1])
        o == toordinal(dt[1], dt[2], dt[3])
    IN IF t0 <= o /\ o < t1
       THEN SubSeq(str(dt[1] - 1), 3, Len(str(dt[1] - 1)))
       ELSE SubSeq(str(dt[1]), 3, Len(str(dt[1])))

\* the years the dates are drawn from, the turn of the century among them
TermYears == 1998..(1998 + MaxTermYears - 1)
Dates ==
    {<<y, m, d>> \in TermYears \X (1..12) \X (1..31) : d <= DaysInMonth(y, m)}

IdleTerm == term_dt = <<>> /\ term_year = <<>> /\ term_pc = "idle"

InitTerm == term_dt \in Dates /\ term_year = <<>> /\ term_pc = "call"

\* year = get_term_year(dt)
GetTermYear ==
    /\ term_pc = "call"
    /\ term_year' = get_term_year(term_dt)
    /\ term_pc' = "returned"
    /\ UNCHANGED <<term_dt, notTermVars>>

NextTerm == GetTermYear

(***************************************************************************)
(* Specifications, one per component.                                      *)
(***************************************************************************)
InitSpecPages == InitPages /\ IdleClass /\ IdleSect /\ IdleOpinion /\ IdleAlignment /\ IdleSegment /\ IdleSplit /\ IdleDisposition /\ IdleRecusal /\ IdleRules /\ IdleLookup /\ IdleCases /\ IdleFlags /\ IdleTweet /\ IdlePoller /\ IdleTerm
SpecPages == InitSpecPages /\ [][NextPages]_vars

InitSpecClass == IdlePages /\ InitClass /\ IdleSect /\ IdleOpinion /\ IdleAlignment /\ IdleSegment /\ IdleSplit /\ IdleDisposition /\ IdleRecusal /\ IdleRules /\ IdleLookup /\ IdleCases /\ IdleFlags /\ IdleTweet /\ IdlePoller /\ IdleTerm
SpecClass == InitSpecClass /\ [][NextClass]_vars

InitSpecSect == IdlePages /\ IdleClass /\ InitSect /\ IdleOpinion /\ IdleAlignment /\ IdleSegment /\ IdleSplit /\ IdleDisposition /\ IdleRecusal /\ IdleRules /\ IdleLookup /\ IdleCases /\ IdleFlags /\ IdleTweet /\ IdlePoller /\ IdleTerm
SpecSect == InitSpecSect /\ [][NextSect]_vars

InitSpecOpinion == IdlePages /\ IdleClass /\ IdleSect /\ InitOpinion /\ IdleAlignment /\ IdleSegment /\ IdleSplit /\ IdleDisposition /\ IdleRecusal /\ IdleRules /\ IdleLookup /\ IdleCases /\ IdleFlags /\ IdleTweet /\ IdlePoller /\ IdleTerm
SpecOpinion == InitSpecOpinion /\ [][NextOpinion]_vars

InitSpecAlignment ==
    IdlePages /\ IdleClass /\ IdleSect /\ IdleOpinion /\ InitAlignment /\ IdleSegment /\ IdleSplit /\ IdleDisposition /\ IdleRecusal /\ IdleRules /\ IdleLookup /\ IdleCases /\ IdleTweet /\ IdlePoller /\ IdleTerm
SpecAlignment == InitSpecAlignment /\ [][NextAlignment]_vars

InitSpecSegment ==
    IdlePages /\ IdleClass /\ IdleSect /\ IdleOpinion /\ IdleAlignment /\ InitSegment /\ IdleSplit /\ IdleDisposition /\ IdleRecusal /\ IdleRules /\ IdleLookup /\ IdleCases /\ IdleFlags /\ IdleTweet /\ IdlePoller /\ IdleTerm
SpecSegment == InitSpecSegment /\ [][NextSegment]_vars

InitSpecSplit ==
    IdlePages /\ IdleClass /\ IdleSect /\ IdleOpinion /\ IdleAlignment /\ IdleSegment
        /\ InitSplit /\ IdleDisposition /\ IdleRecusal /\ IdleRules /\ IdleLookup /\ IdleCases /\ IdleFlags /\ IdleTweet /\ IdlePoller /\ IdleTerm
SpecSplit == InitSpecSplit /\ [][NextSplit]_vars

InitSpecDisposition ==
    IdlePages /\ IdleClass /\ IdleSect /\ IdleOpinion
        /\ IdleAlignment /\ IdleSegment /\ IdleSplit /\ InitDisposition /\ IdleRecusal /\ IdleRules /\ IdleLookup /\ IdleCases /\ IdleFlags /\ IdleTweet /\ IdlePoller /\ IdleTerm
SpecDisposition == InitSpecDisposition /\ [][NextDisposition]_vars

InitSpecRecusal ==
    IdlePages /\ IdleClass /\ IdleSect /\ IdleOpinion
        /\ IdleAlignment /\ IdleSegment /\ IdleSplit /\ IdleDisposition /\ InitRecusal /\ IdleRules /\ IdleLookup /\ IdleCases /\ IdleFlags /\ IdleTweet /\ IdlePoller /\ IdleTerm
SpecRecusal == InitSpecRecusal /\ [][NextRecusal]_vars

InitSpecRules ==
    IdlePages /\ IdleClass /\ IdleSect /\ IdleOpinion
        /\ IdleAlignment /\ IdleSegment /\ IdleSplit /\ IdleDisposition /\ IdleRecusal /\ InitRules /\ IdleLookup /\ IdleCases /\ IdleFlags /\ IdleTweet /\ IdlePoller /\ IdleTerm
SpecRules == InitSpecRules /\ [][NextRules]_vars

InitSpecLookup ==
    IdlePages /\ IdleClass /\ IdleSect /\ IdleOpinion
        /\ IdleAlignment /\ IdleSegment /\ IdleSplit /\ IdleDisposition /\ IdleRecusal /\ IdleRules /\ InitLookup /\ IdleCases /\ IdleFlags /\ IdleTweet /\ IdlePoller /\ IdleTerm
SpecLookup == InitSpecLookup /\ [][NextLookup]_vars

InitSpecCases ==
    IdlePages /\ IdleClass /\ IdleSect /\ IdleOpinion
        /\ IdleAlignment /\ IdleSegment /\ IdleSplit /\ IdleDisposition /\ IdleRecusal /\ IdleRules /\ IdleLookup /\ InitCases /\ IdleFlags /\ IdleTweet /\ IdlePoller /\ IdleTerm
SpecCases == InitSpecCases /\ [][NextCases]_vars

InitSpecTweet ==
    IdlePages /\ IdleClass /\ IdleSect /\ IdleOpinion
        /\ IdleFlags /\ IdleAlignment /\ IdleSegment /\ IdleSplit /\ IdleDisposition /\ IdleRecusal /\ IdleRules /\ IdleLookup /\ IdleCases /\ InitTweet /\ IdlePoller /\ IdleTerm
SpecTweet == InitSpecTweet /\ [][NextTweet]_vars

InitSpecPoller ==
    IdlePages /\ IdleClass /\ IdleSect /\ IdleOpinion
        /\ IdleFlags /\ IdleAlignment /\ IdleSegment /\ IdleSplit /\ IdleDisposition /\ IdleRecusal /\ IdleRules /\ IdleLookup /\ IdleCases /\ IdleTweet /\ InitPoller /\ IdleTerm
SpecPoller == InitSpecPoller /\ [][NextPoller]_vars

InitSpecTerm ==
    IdlePages /\ IdleClass /\ IdleSect /\ IdleOpinion
        /\ IdleFlags /\ IdleAlignment /\ IdleSegment /\ IdleSplit /\ IdleDisposition /\ IdleRecusal /\ IdleRules /\ IdleLookup /\ IdleCases /\ IdleTweet /\ IdlePoller /\ InitTerm
SpecTerm == InitSpecTerm /\ [][NextTerm]_vars

\* The threads keep being scheduled and time.sleep returns: every step of a
\* poller that stays possible is eventually taken.
SpecPollerFair ==
    SpecPoller /\ \A s \in PolledStreams : WF_vars(PollerStep(s))

(***************************************************************************)
(* Claims.                                                                 *)
(***************************************************************************)

\* The offset at which page i ends in the concatenation of the page texts.
RECURSIVE CumLen(_, _)
CumLen(pages, i) == IF i = 0 THEN 0 ELSE CumLen(pages, i - 1) + Len(pages[i])

\* Some page's text is not what the buffer holds at that page's place.
PageMismatch ==
    \E i \in 1..Len(pdf_pages) :
        Slice(pdf_text, CumLen(pdf_pages, i - 1), CumLen(pdf_pages, i))
            # pdf_pages[i]

\* C10: when the page indexer returns, it returns one half-open range per
\* page, in page order; the first starts at 0, each starts where the previous
\* one ends, the last ends at the length of the concatenation of the page
\* texts, and the buffer sliced by a page's range is that page's text.  With
\* a mismatch on any page the indexer never returns ranges.
C10_PageRanges ==
    /\ idx_pc = "done" =>
        /\ Len(retv) = Len(pdf_pages)
        /\ \A i \in 1..Len(retv) :
            /\ retv[i][1] = (IF i = 1 THEN 0 ELSE retv[i - 1][2])
            /\ retv[i][1] <= retv[i][2]
            /\ Slice(pdf_text, retv[i][1], retv[i][2]) = pdf_pages[i]
        /\ retv # <<>> => retv[Len(retv)][2] = Len(Flatten(pdf_pages))
    /\ PageMismatch => idx_pc # "done"

\* Two non-empty pages were indexed and the ranges returned.
C10_Witness ==
    /\ idx_pc = "done"
    /\ Len(pdf_pages) = 2
    /\ pdf_pages[1] # <<>>
    /\ pdf_pages[2] # <<>>
    /\ retv[2][1] = Len(pdf_pages[1])

\* The decision table as the claim states it: title rules first, then the
\* stream rules; "fail" when no rule matches.
TitleFirstTable(m) ==
    IF m.title.text = "Order List" THEN "ORDER_LIST"
    ELSE IF m.title.text = "Miscellaneous Order"
         THEN IF m.page_count = 1 /\ SplitWords(m.first_line) = StayHeader
              THEN "STAY_ORDER" ELSE "ORDER_LIST"
    ELSE IF m.title.rules_prefix THEN "RULES_ORDER"
    ELSE IF m.stream = "SLIP_OPINIONS" THEN "SLIP_OPINION"
    ELSE IF m.stream = "OPINIONS_RELATING_TO_ORDERS"
         THEN "OPINION_RELATING_TO_ORDERS"
    ELSE "fail"

ClassifierEnded == cls_pc \in {"done", "NotImplementedError", "IndexError"}

IsHeaderStart(i) == MatchAnyAt(orders_text, i, HeaderPatterns, 1) # 0

\* C8: the sections that set_sections produces are in text order; each
\* section's span, label plus body, starts at an occurrence of a header label
\* and ends exactly where the next header occurrence starts, or at the end of
\* the text; spans of distinct sections do not overlap, and together they
\* cover the text from the first header occurrence to the end.
C8_SectionSpans ==
    (sec_impl = "set_sections" /\ sec_pc = "done") =>
        LET n == Len(sections)
            total == Len(orders_text)
        IN /\ \A k \in 1..n :
                LET a == sections[k].span[1]
                    b == sections[k].span[2]
                IN /\ a < b /\ b <= total
                   /\ IsHeaderStart(a + 1)
                   /\ sections[k].raw \o sections[k].text
                        = Slice(orders_text, a, b)
                   /\ \A j \in (a + 2)..b : ~IsHeaderStart(j)
                   /\ b = total \/ IsHeaderStart(b + 1)
                   /\ k < n => sections[k + 1].span[1] = b
           /\ n > 0 =>
                /\ sections[n].span[2] = total
                /\ \A j \in 1..sections[1].span[1] : ~IsHeaderStart(j)
           /\ n = 0 => \A j \in 1..total : ~IsHeaderStart(j)

\* Two sections were extracted, the first with a body.
C8_Witness ==
    /\ sec_impl = "set_sections"
    /\ sec_pc = "done"
    /\ Len(sections) = 2
    /\ sections[1].text # <<>>
    /\ sections[1].span[1] > 0

RECURSIVE CountHeaders(_, _)
\* The number of header occurrences at or after token index i, counted left
\* to right without overlap.
CountHeaders(text, i) ==
    LET s == FindFrom(text, i, HeaderPatterns)
    IN IF s = 0 THEN 0
       ELSE 1 + CountHeaders(text, MatchAnyAt(text, s, HeaderPatterns, 1))

\* A header label of the given kind occurs in the orders text.
KindOccurs(kind) ==
    \E i \in 1..Len(orders_text) :
        /\ IsHeaderStart(i)
        /\ from_string(SplitWords(SubSeq(orders_text, i,
              MatchAnyAt(orders_text, i, HeaderPatterns, 1) - 1))) = kind

\* C9 for OrderList.set_sections: a kind is in the section list only if its
\* label occurs, and there are as many sections as header occurrences.
C9_SetSections ==
    (sec_impl = "set_sections" /\ sec_pc = "done") =>
        /\ \A k \in 1..Len(sections) : KindOccurs(sections[k].type)
        /\ Len(sections) = CountHeaders(orders_text, 1)

\* C9 for get_order_section_matches: the same of the entries it returns, none
\* of them a placeholder.
C9_SectionMatches ==
    (sec_impl = "get_order_section_matches" /\ sec_pc = "done") =>
        /\ \A kind \in DOMAIN section_matches :
            /\ section_matches[kind] # None
            /\ KindOccurs(kind)
        /\ Cardinality(DOMAIN section_matches) = CountHeaders(orders_text, 1)

\* C9: the result holds a section of a kind only if a header label of that
\* kind occurs in the orders text; a label that never occurs yields neither
\* an empty section nor a placeholder entry, and the number of sections is
\* the number of header occurrences.
C9_AbsentMeansAbsent == C9_SetSections /\ C9_SectionMatches

\* The sentence that assign_authorship hands to set_authorship.
SentenceGiven ==
    IF op_kind = "Opinion"
    THEN remove_justice_titles(remove_hyphenation(attribution_sentence))
    ELSE SyllabusSentence(add_padding_to_periods(
             remove_justice_titles(remove_hyphenation(attribution_sentence))))

IsLastName(tok) == tok \in LastNameKeys

\* The Justice-name tokens of the sentence given, in order of occurrence.
NameTokens == SelectSeq(SentenceGiven, IsLastName)

\* The document has been constructed: set_authorship has returned.
Constructed == op_pc = "done"

\* C1: every constructed Opinion or Syllabus has an author, and its joiners,
\* when present, hold no tag twice and never hold the author.
C1_AuthorSetJoinersDistinct ==
    Constructed =>
        /\ author # "unset"
        /\ joiners # None =>
                /\ \A i, j \in DOMAIN joiners : joiners[i] = joiners[j] => i = j
                /\ \A i \in DOMAIN joiners : joiners[i] # author

\* The type whose pattern is present in the rejoined sentence.
TypePresent(t) ==
    \E k \in DOMAIN TypePatterns :
        /\ TypePatterns[k].type = t
        /\ Search(TypePatterns[k].pats, remove_hyphenation(attribution_sentence))

Priority == <<"STATEMENT", "DISSENT", "CONCURRENCE", "PLURALITY", "MAJORITY",
              "PER_CURIAM", "DECREE">>

\* C2: once get_type has run on an attribution sentence, the type is that of
\* the first pattern present in the order Statement of, dissent*, concurr*,
\* delivered an opinion, delivered the opinion, PER CURIAM, DECREE / ORDER
\* AND JUDGMENT; when no pattern is present get_type has raised and no type
\* is set.
C2_TypePriority ==
    (op_kind = "Opinion" /\ op_pc # "new") =>
        LET present == {k \in DOMAIN Priority : TypePresent(Priority[k])} IN
        IF present = {}
        THEN type = "unset" /\ op_pc = "NotImplementedError"
        ELSE type = Priority[CHOOSE k \in present : \A j \in present : k <= j]

\* C2 (witness): a sentence with both dissent* and concurr* has been typed
\* DISSENT.
C2_Witness ==
    /\ op_kind = "Opinion"
    /\ op_pc = "typed"
    /\ TypePresent("DISSENT")
    /\ TypePresent("CONCURRENCE")
    /\ type = "DISSENT"

\* '\bPER\s+CURIAM' occurs in the sentence given.
NamesPerCuriam ==
    Search(<< <<W({"PER"}), WS, W({"CURIAM"})>> >>, SentenceGiven)

AuthorFirstJoinersRest ==
    /\ author = Head(NameTokens)
    /\ joiners = IF Len(NameTokens) > 1 THEN Tail(NameTokens) ELSE None

Scenario4 ==
    (op_kind = "Opinion" /\ attribution_sentence = Scenario4Sentence) =>
        /\ author = "KAVANAUGH"
        /\ joiners = <<"ROBERTS", "THOMAS", "BREYER", "SOTOMAYOR", "KAGAN",
                       "GORSUCH">>

ActiveTags == {"ROBERTS", "THOMAS", "ALITO", "SOTOMAYOR", "KAGAN", "GORSUCH",
               "KAVANAUGH", "BARRETT", "JACKSON"}

\* C4: whenever the attribution sentence contains 'unanimous', the joiners
\* set are the active Justices minus the author, without PER_CURIAM, whether
\* or not other names follow the author.
C4_UnanimousJoinersAreRoster ==
    (Constructed /\ HasUnanimous(attribution_sentence)) =>
        /\ joiners # None
        /\ {joiners[i] : i \in DOMAIN joiners} = ActiveTags \ {author}

\* alignment_summary has returned its list.
AlignmentReturned == al_pc \in {"returned", "scored", "AssertionError", "ValueError"}

\* The sentences with 'filed' that come after the first sentence, in order.
FiledAfterFirst ==
    LET IsFiled(s) == s.filed IN SelectSeq(Tail(doc), IsFiled)

\* C5: for a paragraph whose first sentence lacks 'filed', the list returned
\* holds exactly one MAJORITY tuple, first, then exactly one tuple for each
\* later sentence with 'filed', in sentence order, typed
\* CONCURRENCE_AND_DISSENT, CONCURRENCE or DISSENT by the words of the
\* sentence.
C5_OneMajorityThenOnePerFiled ==
    (AlignmentReturned /\ doc # <<>> /\ ~doc[1].filed) =>
        /\ Len(opinions) = 1 + Len(FiledAfterFirst)
        /\ opinions[1][1] = "MAJORITY"
        /\ \A k \in DOMAIN FiledAfterFirst :
                opinions[k + 1][1] = FiledType(FiledAfterFirst[k])

\* The Justices of a tuple: its author and its joiners.
TupleVoters(tuple) ==
    {tuple[2]} \cup
        (IF tuple[3] # None THEN {tuple[3][i] : i \in DOMAIN tuple[3]} ELSE {})

\* The Justices of the tuples after the first whose type is one of types.
VotersOf(types) ==
    UNION {TupleVoters(opinions[i]) :
              i \in {j \in 2..Len(opinions) : opinions[j][1] \in types}}

\* C6: with a syllabus, the majority count of the score is the number of
\* distinct Justices among the majority author, the majority joiners and
\* the authors and joiners of the concurring opinions (CONCURRENCE and
\* CONCURRENCE_AND_DISSENT); the dissent count is the number of distinct
\* Justices among the authors and joiners of the DISSENT opinions.
C6_VoteSplit ==
    (al_pc = "scored" /\ ~(is_per_curiam \/ is_decree)) =>
        /\ alignment[3][1] =
               Cardinality(TupleVoters(opinions[1])
                   \cup VotersOf({"CONCURRENCE", "CONCURRENCE_AND_DISSENT"}))
        /\ alignment[3][2] = Cardinality(VotersOf({"DISSENT"}))

\* C6 (witness): a score where a Justice is both a majority joiner and the
\* author of a concurrence, with a dissent.
C6_Witness ==
    /\ al_pc = "scored"
    /\ Len(alignment[1]) > alignment[3][1]
    /\ alignment[3][2] > 0

\* The segmenter at work is one of the two that split an order list.
SplitsOrders == seg_impl \in {"OrderListParserStrategy", "split_order_list_text"}

IsBlankLine(line) == line = <<>> \/ isspace(line)
IsNotBlankLine(line) == ~IsBlankLine(line)

\* The last non-blank line of the page, stripped, is purely numeric.
LastNonBlankLineNumeric(page) ==
    LET lines == SelectSeq(splitlines(page), IsNotBlankLine)
    IN lines # <<>> /\ StripIsNumeric(lines[Len(lines)])

\* The last line of the page, stripped, is purely numeric.
LastLineNumeric(page) ==
    splitlines(page) # <<>> /\ EndsWithPageNumber(page)

\* The concatenation of what f gives for the pages at the indices idx.
RECURSIVE ConcatPages(_, _)
ConcatPages(parts, idx) ==
    IF idx = <<>> THEN <<>>
    ELSE parts[Head(idx)] \o ConcatPages(parts, Tail(idx))

\* The indices of the pages passed that were placed in a partition.
PlacedIn(partition) ==
    LET In(i) == placed[i] = partition
    IN SelectSeq([i \in DOMAIN placed |-> i], In)

\* C11: for a release titled 'Order List', a page is in the orders partition
\* exactly when its last non-blank line, stripped, is purely numeric; the
\* orders partition is the concatenation, in page order, of those pages
\* without their last line.
C11_OrdersIffPageNumber ==
    (SplitsOrders /\ release_title = "Order List") =>
        /\ \A i \in DOMAIN placed :
               placed[i] = "orders" <=> LastNonBlankLineNumeric(page_texts[i])
        /\ seg_pc = "done" /\ order_text # None =>
               order_text = ConcatPages(
                   [i \in DOMAIN page_texts |-> CropPageNumber(page_texts[i])],
                   PlacedIn("orders"))

\* C11 (what the code does): the same with the last line of the page, blank
\* or not.
C11_OrdersIffLastLineNumeric ==
    (SplitsOrders /\ release_title = "Order List") =>
        /\ \A i \in DOMAIN placed :
               placed[i] = "orders" <=> LastLineNumeric(page_texts[i])
        /\ seg_pc = "done" /\ order_text # None =>
               order_text = ConcatPages(
                   [i \in DOMAIN page_texts |-> CropPageNumber(page_texts[i])],
                   PlacedIn("orders"))

\* The opinions partition that the pages placed there make: each page
\* without its first three lines, in page order, one newline before the
\* first.
OpinionsOfPlaced ==
    LET body == [i \in DOMAIN page_texts |->
                    JoinLines(DropLines(splitlines(page_texts[i]), 3))]
        idx == PlacedIn("opinions")
    IN IF idx = <<>> THEN <<>> ELSE <<"\n">> \o ConcatPages(body, idx)

\* C12: once an order list is segmented, every page that failed the orders
\* test is in the opinions partition, without its first three lines, in
\* page order, the first one after one newline; no page is lost and none is
\* in both partitions.
C12_OtherPagesAreOpinions ==
    (SplitsOrders /\ release_title = "Order List" /\ seg_pc = "done") =>
        /\ Len(placed) = Len(page_texts)
        /\ \A i \in DOMAIN placed : placed[i] \in {"orders", "opinions"}
        /\ opinion_text = OpinionsOfPlaced

\* C12 (the script alone): split_order_list_text does so.
C12_ScriptKeepsOpinions ==
    seg_impl = "split_order_list_text" => C12_OtherPagesAreOpinions

\* C13: for a release titled 'Miscellaneous Order', with any number of
\* pages, every page is in the orders partition, in page order, and none in
\* the opinions partition, whatever its last line.
C13_MiscAllOrders ==
    (SplitsOrders /\ release_title = "Miscellaneous Order" /\ seg_pc = "done"
        /\ page_texts # <<>>) =>
        /\ \A i \in DOMAIN placed : placed[i] = "orders"
        /\ order_text = Flatten(page_texts)
        /\ opinion_text = <<>>

\* C13 (the parser alone): OrderListParserStrategy.parse does so.
C13_ParserMiscAllOrders ==
    seg_impl = "OrderListParserStrategy" => C13_MiscAllOrders

\* What the pages contribute to the opinion text when a page whose first
\* line satisfies short has a header of 2 lines and any other a header of 3.
RECURSIVE OpinionTextOf(_, _)
OpinionTextOf(pgs, short) ==
    IF pgs = <<>> THEN <<>>
    ELSE LET lines == splitlines(Head(pgs))
             n == IF short[lines[1]] THEN 2 ELSE 3
         IN (IF lines = <<>> THEN <<>>
             ELSE <<"\n">> \o JoinLines(DropLines(lines, n)))
            \o OpinionTextOf(Tail(pgs), short)

\* The first lines of the pages.
FirstLinesOfPages == {splitlines(p)[1] : p \in SegmentPages \ {<<>>}}

\* C14: every page contributes to the opinion text, in page order, its
\* lines after the first 3, or after the first 2 when its first line is
\* blank (empty or white space only).
C14_HeaderLinesDropped ==
    (seg_impl = "OpinionParserStrategy" /\ seg_pc = "done") =>
        opinion_text = OpinionTextOf(page_texts,
                           [l \in FirstLinesOfPages |-> IsBlankLine(l)])

\* C14 (what the code does): 2 lines only when the first line is white
\* space and not empty.
C14_HeaderLinesDroppedIsSpace ==
    (seg_impl = "OpinionParserStrategy" /\ seg_pc = "done") =>
        opinion_text = OpinionTextOf(page_texts,
                           [l \in FirstLinesOfPages |-> isspace(l)])

\* The indices of the text where the literal header stands.
HeaderAt == LET IsHdr(i) == opinions_text[i] = "HDR"
            IN SelectSeq([i \in DOMAIN opinions_text |-> i], IsHdr)

\* The chunks that the headers at the indices at give: each from its header
\* to the next header, the last one to the end of the text.
ChunksAt(at) ==
    [k \in DOMAIN at |->
        SubSeq(opinions_text, at[k],
               IF k < Len(at) THEN at[k + 1] - 1 ELSE Len(opinions_text))]

\* The texts of the documents created.
DocumentTexts == [k \in DOMAIN documents |-> documents[k].text]

\* C15: the splitter yields one chunk per occurrence of the header
\* 'SUPREME COURT OF THE UNITED STATES', in order of occurrence; each chunk
\* begins with the header and ends where the next header begins, the last
\* one at the end of the text.
C15_OneChunkPerHeader ==
    (split_pc = "done" /\ \A i \in DOMAIN opinions_text : opinions_text[i] # "HDR_NL") =>
        DocumentTexts = ChunksAt(HeaderAt)

\* C15 (OpinionList alone, the header with its two white-space characters):
\* get_sections yields one chunk per such header.
C15_OneChunkPerSpacedHeader ==
    (split_pc = "done" /\ split_impl = "OpinionList") =>
        LET IsHdr(i) == MatchElems(opinions_text, i, SplitPatterns.OpinionList.hdr, 1) # 0
        IN DocumentTexts = ChunksAt(SelectSeq([i \in DOMAIN opinions_text |-> i], IsHdr))

Verbs == {"AFFIRMED", "DISMISSED", "REMANDED", "REVERSED", "VACATED"}

\* The listed verb phrase that begins at index i, the longest one, with the
\* index after it; kind "none" when no listed phrase begins there.
PhraseAt(text, i) ==
    LET Follows(p) == MatchElems(text, i + 1, p, 1)
        stay == MatchAlternative(text, i, DispositionAlternatives[13])
    IN IF text[i] \in Verbs /\ Follows(InPart) # 0
       THEN [kind |-> text[i] \o "_IN_PART", end |-> Follows(InPart)]
       ELSE IF text[i] = "DISMISSED" /\ Follows(AsImprovidentlyGranted) # 0
       THEN [kind |-> "DISMISSED_AS_IMPROVIDENTLY_GRANTED",
             end |-> Follows(AsImprovidentlyGranted)]
       ELSE IF text[i] = "DISMISSED" /\ Follows(ForWantOfJurisdiction) # 0
       THEN [kind |-> "DISMISSED_FOR_WANT_OF_JURISDICTION",
             end |-> Follows(ForWantOfJurisdiction)]
       ELSE IF text[i] \in Verbs THEN [kind |-> text[i], end |-> i + 1]
       ELSE IF stay # 0 THEN [kind |-> "GRANTED", end |-> stay]
       ELSE [kind |-> "none", end |-> i + 1]

RECURSIVE ListedPhrases(_, _)
\* The kinds of the listed phrases of the text from index i on, in order.
ListedPhrases(text, i) ==
    IF i > Len(text) THEN <<>>
    ELSE IF PhraseAt(text, i).kind = "none" THEN ListedPhrases(text, i + 1)
    ELSE <<PhraseAt(text, i).kind>> \o ListedPhrases(text, PhraseAt(text, i).end)

\* C16: get_disposition_type returns one entry per occurrence of a listed
\* verb phrase, in the order of the text, each the kind of its phrase, for
\* every listed kind.
C16_OneEntryPerPhrase ==
    disp_pc = "done" => disp_retv = ListedPhrases(disposition_text, 1)

\* C16 (limited): the same for the texts where DISMISSED stands only in
\* 'DISMISSED as improvidently granted'.
C16_OneEntryPerPhraseButDismissed ==
    (/\ disp_pc = "done"
     /\ \A k \in DOMAIN ListedPhrases(disposition_text, 1) :
           ListedPhrases(disposition_text, 1)[k] \notin
              {"DISMISSED", "DISMISSED_IN_PART", "DISMISSED_FOR_WANT_OF_JURISDICTION"})
        => disp_retv = ListedPhrases(disposition_text, 1)

\* What the match of a verb at index m.at contributed.
Contributed(m) == {m.names[k] : k \in DOMAIN m.names}
IsInPart(m) == MatchElems(disposition_text, m.at + 1, InPart, 1) # 0
VerbMatches ==
    {disp_matches[k] : k \in {j \in DOMAIN disp_matches :
                                 disposition_text[disp_matches[j].at] \in Verbs}}

\* C17: no occurrence of a verb contributes both the base kind and the
\* in-part kind: '<VERB> IN PART' contributes the in-part kind and never the
\* base kind, a bare occurrence never the in-part kind.
C17_InPartNeverBase ==
    disp_pc = "done" =>
        \A m \in VerbMatches :
            LET verb == disposition_text[m.at] IN
            IF IsInPart(m)
            THEN verb \o "_IN_PART" \in Contributed(m) /\ verb \notin Contributed(m)
            ELSE verb \o "_IN_PART" \notin Contributed(m)

\* C17 (limited): no occurrence contributes two entries, and the rule of C17
\* holds for AFFIRMED, REMANDED, REVERSED and VACATED.
C17_InPartNeverBaseButDismissed ==
    disp_pc = "done" =>
        \A m \in VerbMatches :
            LET verb == disposition_text[m.at] IN
            /\ Len(m.names) <= 1
            /\ verb # "DISMISSED" =>
                  IF IsInPart(m)
                  THEN Contributed(m) = {verb \o "_IN_PART"}
                  ELSE Contributed(m) = {verb}

TookNoPart == <<WS, W({"took"}), WS, W({"no"}), WS, W({"part"})>>

\* The Justices named by a clause '<name> took no part' that begins after
\* index i of the opinion's text.
RecusedAfter(i) ==
    {JusticeTag_from_string(rec_text[k]) :
        k \in {j \in DOMAIN rec_text :
                 /\ j > i
                 /\ rec_text[j] \in LastNameKeys
                 /\ MatchElems(rec_text, j + 1, TookNoPart, 1) # 0}}

\* C18: an opinion whose text holds a clause '<Justice name> took no part'
\* after the attribution sentence has that Justice's tag in its recusals;
\* without any such clause in the text the recusals stay absent.
C18_RecusalsFromClause ==
    rec_pc = "done" =>
        /\ \A tag \in RecusedAfter(get_attribution_sentence(rec_text).to) :
              recusals # None /\ \E k \in DOMAIN recusals : recusals[k] = tag
        /\ RecusedAfter(0) = {} => recusals = None

\* C18 (limited): without a clause 'took no part' in the text the recusals
\* stay absent, and recusals that are present come from the attribution
\* sentence alone.
C18_RecusalsFromSentenceOnly ==
    rec_pc = "done" =>
        /\ RecusedAfter(0) = {} => recusals = None
        /\ recusals # None => Search(<<TookNoPart>>, rec_sentence)

RECURSIVE HeadingSpans(_)
\* The heading lines of the plain text from index i on, each with its number
\* and the span that runs to the next heading line or to the end.
HeadingSpans(i) ==
    LET m == NextContent(rule_text, i)
    IN IF ~m.found THEN <<>>
       ELSE <<[number |-> m.number, span |-> SubSeq(rule_text, m.from, m.to)]>>
            \o HeadingSpans(m.to + 1)

Numbers(s) == [k \in DOMAIN s |-> s[k].number]

\* Rule r holds the span of a heading line that bears its own number.
HasOwnSpan(r) ==
    \E k \in DOMAIN HeadingSpans(1) :
        HeadingSpans(1)[k].number = r.number /\ HeadingSpans(1)[k].span = r.contents

\* C19: every rule found in the bold text receives the span of plain text
\* from the heading line that bears the rule's own number to the next
\* heading line or the end, whatever the two sequences of headings are.
C19_ContentOfOwnNumber ==
    rule_pc \in {"done", "IndexError"} =>
        \A k \in DOMAIN rules :
            rules[k].number \in {Numbers(HeadingSpans(1))[j] : j \in DOMAIN HeadingSpans(1)}
                => HasOwnSpan(rules[k])

\* C19 (limited): when the bold headings and the heading lines bear the
\* same numbers in the same order, every rule receives its own span; in
\* every case the i-th rule receives the span of the i-th heading line.
C19_ContentByPosition ==
    rule_pc \in {"done", "IndexError"} =>
        /\ \A k \in DOMAIN rules :
              k <= Len(HeadingSpans(1)) => rules[k].contents = HeadingSpans(1)[k].span
        /\ Numbers(rules) = Numbers(HeadingSpans(1)) =>
              \A k \in DOMAIN rules : HasOwnSpan(rules[k])

\* The outcomes of the calls that fail for each cause: an unrecognized
\* section label, document title or Justice name, or anything else.
OutcomesOf(cause) ==
    LET Failures(S) == {o \in S : o.raised # ""} IN
    CASE cause = "label" -> Failures({section_from_string(l) : l \in Labels})
      [] cause = "title" ->
            Failures({set_document_type(m) : m \in {n \in Msgs :
                /\ n.stream = "ORDERS"
                /\ n.title.text \notin {"Order List", "Miscellaneous Order"}}})
      [] cause = "name" -> Failures({justice_from_string(s) : s \in JusticeNames})
      [] cause = "other" ->
            Failures({opinion_get_type(s) : s \in TypeSentences}
                \cup {set_document_type(m) : m \in {n \in Msgs :
                        n.stream # "ORDERS" \/ n.title.text = "Miscellaneous Order"}})

\* The cause of the failure of the call made, "none" without a failure.
Cause ==
    IF err_pc # "raised" THEN "none"
    ELSE IF err_op = "OrderSectionType.from_string" THEN "label"
    ELSE IF err_op = "JusticeTag.from_string" THEN "name"
    ELSE IF /\ err_op = "Parser.set_document_type"
            /\ err_msg.stream = "ORDERS"
            /\ err_msg.title.text # "Miscellaneous Order"
         THEN "title"
    ELSE "other"

\* The call made was handed a value that its operation does not recognize.
Unrecognized ==
    \/ err_op = "OrderSectionType.from_string" /\ from_string(err_label) = "unknown"
    \/ err_op = "JusticeTag.from_string"
          /\ JusticeTag_from_string(err_name) = "NotImplementedError"
    \/ /\ err_op = "Parser.set_document_type"
       /\ err_msg.stream = "ORDERS"
       /\ err_msg.title.text \notin {"Order List", "Miscellaneous Order"}
       /\ ~err_msg.title.rules_prefix

\* C20: an unrecognized section label, document title or Justice name makes
\* the call fail without a value, and the outcome tells which of the three
\* it was: no failure of another cause has the same outcome.
C20_CausesDistinguishable ==
    (err_pc # "call" /\ Unrecognized) =>
        /\ err_pc = "raised" /\ err_outcome.returned = ""
        /\ \A c \in {"label", "title", "name", "other"} \ {Cause} :
              err_outcome \notin OutcomesOf(c)

\* C20 (limited): each of the three fails without a value, and the failure
\* of an unrecognized Justice name alone is told from every other cause.
C20_FailsWithoutValue ==
    (err_pc # "call" /\ Unrecognized) =>
        /\ err_pc = "raised" /\ err_outcome.returned = ""
        /\ Cause = "name" =>
              \A c \in {"label", "title", "other"} : err_outcome \notin OutcomesOf(c)

\* C21: a section without a docket/case-name pair is kept and reports the
\* count 0 with the text 'No cases.'; a section with n >= 1 pairs reports
\* the count n, one line per case, and never the text 'No cases.'.
C21_NoCasesIsAnOutcome ==
    case_pc = "reported" =>
        IF cases = <<>>
        THEN cases_report = [num_cases |-> 0, cases_text |-> << <<"No cases.">> >>]
        ELSE /\ cases_report.num_cases = Len(cases)
             /\ Len(cases_report.cases_text) = Len(cases)
             /\ \A k \in DOMAIN cases_report.cases_text :
                    cases_report.cases_text[k] # <<"No cases.">>

\* C21: a section with text and no case in it has reported.
C21_Witness ==
    case_pc = "reported" /\ cases = <<>> /\ case_text # <<>>

\* C22: a release flagged per curiam or decree has the score 9-0, whatever
\* its individual opinions are.
C22_FlaggedScoreIsNineZero ==
    (al_pc = "scored" /\ (is_per_curiam \/ is_decree)) => alignment[3] = <<9, 0>>

\* C22: a flagged release with a dissent among its opinions has its score.
C22_Witness ==
    /\ al_pc = "scored"
    /\ is_per_curiam \/ is_decree
    /\ \E k \in DOMAIN slip_opinions : slip_opinions[k][1] = "DISSENT"

\* The Justices on each side of the score.
MajoritySide == {alignment[1][k] : k \in DOMAIN alignment[1]}
DissentSide == {alignment[2][k] : k \in DOMAIN alignment[2]}

\* C29: the two counts of the score add up to 9 at most, and no Justice is
\* counted on both sides.
C29_AtMostNineNoneTwice ==
    al_pc = "scored" =>
        /\ alignment[3][1] + alignment[3][2] <= 9
        /\ MajoritySide \cap DissentSide = {}


(***************************************************************************)
(* C23                                                                     *)
(***************************************************************************)
\* C23: for every release, the summary string that compose_tweet returns is
\* at most 280 characters long, whatever the lengths of the title, the
\* holding, the section labels and the url.
C23_SummaryAtMost280 ==
    tw_pc = "composed" => Len(tweet) <= TweetLimit

\* C23 (what the code keeps): the limit is applied by post_tweet alone, so a
\* summary that was posted is at most 280 characters long.
C23_PostedAtMost280 ==
    tw_pc = "posted" => Len(tweet) <= TweetLimit


(***************************************************************************)
(* C24, C25, C30                                                           *)
(***************************************************************************)
\* what belongs to the detector of one stream
PollerState(s) ==
    <<watch_element[s], hash[s], new_hash[s], main_calls[s], pipeline_runs[s],
      poll_context[s], poll_pc[s]>>

\* C24: each poller calls the pipeline at most once over its lifetime, only
\* after a refresh whose hash differs from the hash taken when detection
\* started, and it stops polling after that call; while every refreshed hash
\* equals the starting hash it never calls the pipeline.
C24_AtMostOnceAfterChange ==
    [][\A s \in PolledStreams :
          /\ main_calls'[s] <= 1
          /\ main_calls'[s] # main_calls[s] =>
                 /\ poll_pc[s] = "refreshed"
                 /\ new_hash[s] # hash[s]
                 /\ poll_pc'[s] \in {"done", "ValueError"}
          /\ main_calls[s] = 1 => PollerState(s)' = PollerState(s)]_vars

\* C24 witness: a poller has called the pipeline after a refresh that
\* differed, and polls no more, while another still polls an unchanged page.
C24_Witness ==
    \E s, o \in PolledStreams :
        /\ main_calls[s] = 1 /\ new_hash[s] # hash[s]
        /\ poll_pc[s] \in {"done", "ValueError"}
        /\ main_calls[o] = 0 /\ new_hash[o] = hash[o] /\ poll_pc[o] = "sleep"

\* C25: under every interleaving of the three threads a step of one poller
\* changes nothing of another poller, and a poller calls the pipeline only
\* when its own stream's watched element changed: a change, a call or a
\* failure in one stream never causes or suppresses a call in another.
C25_PollersIndependent ==
    [][\A s \in PolledStreams :
          /\ PollerState(s)' # PollerState(s) =>
                 \A o \in PolledStreams \ {s} : PollerState(o)' = PollerState(o)
          /\ main_calls'[s] # main_calls[s] =>
                 /\ site_changed[s]
                 /\ new_hash[s] = get_hash(watch_element[s])
                 /\ new_hash[s] # hash[s]
          /\ (poll_pc[s] = "refreshed" /\ new_hash[s] # hash[s]) =>
                 ENABLED CallMain(s)]_vars

\* C25 witness: one stream changed and its poller called the pipeline, a
\* second poller failed, and the third still polls its unchanged page.
C25_Witness ==
    \E s, o, t \in PolledStreams :
        /\ main_calls[s] = 1
        /\ poll_pc[o] = "ValueError" /\ poll_context[o] = "RequestException"
        /\ ~site_changed[t] /\ poll_pc[t] = "refreshed" /\ main_calls[t] = 0

\* C30: if at some poll the watched element's hash differs from the starting
\* hash then, unless a step of the environment fails, the poller eventually
\* runs the pipeline for its own stream and terminates; a poller that ended
\* with an error stays ended.
C30_ChangeLeadsToPipeline ==
    /\ \A s \in PolledStreams :
           (poll_pc[s] = "refreshed" /\ new_hash[s] # hash[s])
               ~> (poll_pc[s] = "done" /\ pipeline_runs[s] = 1)
    /\ [][\A s \in PolledStreams :
              poll_pc[s] = "ValueError" => PollerState(s)' = PollerState(s)]_vars

\* C30 (what the code keeps): a poll that sees a differing hash leads to the
\* end of the poller, and a poller that ended with an error stays ended.
C30_ChangeLeadsToEnd ==
    /\ \A s \in PolledStreams :
           (poll_pc[s] = "refreshed" /\ new_hash[s] # hash[s])
               ~> (poll_pc[s] \in {"done", "ValueError"})
    /\ [][\A s \in PolledStreams :
              poll_pc[s] = "ValueError" => PollerState(s)' = PollerState(s)]_vars


(***************************************************************************)
(* C26                                                                     *)
(***************************************************************************)
\* the day of October that is its first Monday in year y
FirstMondayOfOctober(y) == CHOOSE d \in 1..7 : weekday(y, 10, d) = 0

\* date a is not after date b
NotAfter(a, b) ==
    \/ a[1] < b[1]
    \/ a[1] = b[1] /\ a[2] < b[2]
    \/ a[1] = b[1] /\ a[2] = b[2] /\ a[3] <= b[3]

\* the term that date dt belongs to
TermOf(dt) ==
    CHOOSE y \in (dt[1] - 1)..dt[1] :
        /\ NotAfter(<<y, 10, FirstMondayOfOctober(y)>>, dt)
        /\ ~NotAfter(<<y + 1, 10, FirstMondayOfOctober(y + 1)>>, dt)

\* C26: for every date d, get_term_year returns the last two digits of the
\* year Y with (first Monday of October of Y) <= d < (first Monday of October
\* of Y+1); the day before the first Monday of October belongs to the
\* previous term and the first Monday itself to the new term.
C26_TermYear ==
    term_pc = "returned" =>
        /\ \E y \in (term_dt[1] - 1)..term_dt[1] :
               /\ NotAfter(<<y, 10, FirstMondayOfOctober(y)>>, term_dt)
               /\ ~NotAfter(<<y + 1, 10, FirstMondayOfOctober(y + 1)>>, term_dt)
        /\ term_year = <<(TermOf(term_dt) % 100) \div 10, TermOf(term_dt) % 10>>
        /\ (term_dt[2] = 10 /\ term_dt[3] = FirstMondayOfOctober(term_dt[1]))
               => TermOf(term_dt) = term_dt[1]
        /\ (term_dt[2] = 10 /\ term_dt[3] + 1 = FirstMondayOfOctober(term_dt[1]))
               => TermOf(term_dt) = term_dt[1] - 1

\* C26 witness: the term year of the Sunday before a first Monday of October
\* that is not October 1 was returned, and it names the year before.
C26_Witness ==
    /\ term_pc = "returned"
    /\ term_dt[2] = 10 /\ term_dt[3] + 1 = FirstMondayOfOctober(term_dt[1])
    /\ weekday(term_dt[1], term_dt[2], term_dt[3]) = 6
    /\ term_year = <<9, 9>>

(***************************************************************************)
(* C27                                                                     *)
(***************************************************************************)
\* the header that set_sections is at, as the words of its label
HeaderAtHand ==
    SplitWords(MatchHeader(
        NextSectionMatch(orders_text, sec_pos + 1, LookaheadPatterns)))

\* C27: every header occurrence that the header pattern of set_sections
\* matches, whatever its spacing and whichever of the singular and plural
\* forms it combines, is mapped to one of the seven section kinds after
\* whitespace normalization: set_sections never fails with an unrecognized
\* label on a header its own pattern matched.
C27_MatchedHeaderIsRecognized ==
    sec_impl = "set_sections" => sec_pc # "NotImplementedError"

\* C27 (what the code keeps): set_sections fails only on a header that
\* puts one of ORDER(S) and CASE(S) in the singular and the other in the
\* plural.
C27_OnlyMixedFormsFail ==
    (sec_impl = "set_sections" /\ sec_pc = "NotImplementedError") =>
        HeaderAtHand \in {<<"ORDER", "IN", "PENDING", "CASES">>,
                          <<"ORDERS", "IN", "PENDING", "CASE">>}

(***************************************************************************)
(* C28                                                                     *)
(***************************************************************************)
\* the upper-case last names of the Justices of create_court
RosterLastNames == {Court[i] : i \in DOMAIN Court}

\* C28: for every Justice of the roster that create_court builds, active or
\* historical, the upper-case last name alone is recognized by
\* JusticeTag.from_string and maps to that Justice's own tag.
C28_RosterLastNameIsRecognized ==
    (err_op = "JusticeTag.from_string" /\ err_pc # "call"
        /\ err_name \in RosterLastNames) =>
        err_outcome = Returned(err_name)

\* C28 (what the code keeps): the last name alone is recognized for every
\* Justice of the roster but JACKSON, who is a key of the table only as
\* 'JUSTICE JACKSON'.
C28_RosterLastNameButJackson ==
    /\ (err_op = "JusticeTag.from_string" /\ err_pc # "call"
           /\ err_name \in RosterLastNames \ {"JACKSON"}) =>
           err_outcome = Returned(err_name)
    /\ (err_op = "JusticeTag.from_string" /\ err_pc # "call"
           /\ err_name = "JUSTICE JACKSON") =>
           err_outcome = Returned("JACKSON")

====
